---- MODULE Spec2Model ----
(***************************************************************************)
(* The durable conversation orchestrator of pptgen-temporal:               *)
(* PPTAgentWorkflow of BaseAgentWorkflow.py and of temporal_agent.py, with *)
(* the activities of activities.py / temporal_agent.py it calls.           *)
(*                                                                         *)
(* A workflow instance is one coroutine (run) plus signal handlers that    *)
(* the Temporal event loop interleaves at the coroutine's await points.    *)
(* Every action below is one atomic stretch of workflow code: from the     *)
(* completion of the awaited activity (or wait_condition) to the next      *)
(* await.  The arguments of an activity are evaluated when the activity is *)
(* scheduled, so they are kept in inflight while the activity runs.        *)
(***************************************************************************)
EXTENDS Integers, Sequences, FiniteSets, TLC

VARIABLES
    variant,              \* which PPTAgentWorkflow: "base" | "temporal"
    pc,                   \* the await the run coroutine is suspended at
    messages,             \* self.messages
    pptx_files,           \* self.pptx_files
    excel_files,          \* self.excel_files
    file_path_mapping,    \* self.file_path_mapping
    memory,               \* self.memory
    user_input_received,  \* self.user_input_received
    user_query,           \* self.user_query
    inflight,             \* arguments of the activity in flight
    tool_calls,           \* assistant_message["tool_calls"] being iterated
    tool_index,           \* position of the for loop in tool_calls (1-based)
    tool_response,        \* tool_response held while the snapshot is rebuilt
    fs,                   \* the document files on disk
    delivered,            \* history: number of signals delivered so far
    llm_calls,            \* history: number of call_llm completions so far
    cycle,                \* history: what the signal that started the cycle carried
    clock,                \* history: number of activity completions so far
    snapshot_at,          \* history: clock at which turn 0's snapshot was built
    tool_done_at,         \* history: clock at which the held tool_response was made
    turn_at,              \* history: per turn, clock of the activity behind it
    history,              \* the event history Temporal records for the instance
    iteration,            \* vanilla_agent.ai_ppt_agent: iteration
    max_iterations,       \* vanilla_agent.ai_ppt_agent: max_iterations
    tools,                \* self.tools (the local tools in ai_ppt_agent)
    session_state,        \* app.py: st.session_state (agent, threads, current_thread)
    signals,              \* signals the user interface has sent, in order
    poll                  \* streamlit_app.poll_for_assistant_response: its locals

vars == <<variant, pc, messages, pptx_files, excel_files, file_path_mapping,
          memory, user_input_received, user_query, inflight, tool_calls,
          tool_index, tool_response, fs, delivered, llm_calls, cycle, clock,
          snapshot_at, tool_done_at, turn_at, history, iteration, max_iterations,
          tools, session_state, signals, poll>>

\* the state of the user interface
ui == <<session_state, signals, poll>>

\* ------------------------------------------------------------------ bounds
MaxSignals == 3
MaxLLMCalls == 2
DeckSlides == 3

\* ------------------------------------------------------------ python values
None == "None"

\* an optional list: None, or a list (possibly empty)
NoList == [is_none |-> TRUE, items |-> <<>>]
List(items) == [is_none |-> FALSE, items |-> items]

\* dict.get(key, default)
Get(d, key, default) == IF key \in DOMAIN d THEN d[key] ELSE default

\* d[key] = value on a dict
DictSet(d, key, value) ==
    [k \in DOMAIN d \cup {key} |-> IF k = key THEN value ELSE d[k]]

EmptyDict == [k \in {} |-> None]

\* os.path.basename: a path is the sequence of its components
basename(path) == path[Len(path)]

\* ------------------------------------------------------------ the documents
DeckA == <<"d1", "a.pptx">>
DeckB == <<"d2", "a.pptx">>
BookA == <<"d1", "b.xlsx">>
Gone == <<"d1", "gone.pptx">>

InitialFiles ==
    (DeckA :> [kind |-> "pptx", slides |-> DeckSlides, rev |-> 0]) @@
    (DeckB :> [kind |-> "pptx", slides |-> 1, rev |-> 0]) @@
    (BookA :> [kind |-> "xlsx", sheets |-> <<"Sheet1", "Sheet2">>, rev |-> 0])

\* Presentation(file_path) succeeds
OpensAsDeck(files, path) == path \in DOMAIN files /\ files[path].kind = "pptx"

\* load_workbook(file_path) / pd.read_excel(file_path, ...) can open the file
OpensAsBook(files, path) == path \in DOMAIN files /\ files[path].kind = "xlsx"

\* --------------------------------------------------------------- activities
\* mutant: the labels are numbered from 0
SlideLabelsZeroBased(n) == [i \in 1..n |-> "Slide " \o ToString(i - 1)]

\* [f"Slide {i+1}" for i in range(len(prs.slides))]
SlideLabels(n) == [i \in 1..n |-> "Slide " \o ToString(i)]

\* [f"Error: {str(e)}"]
ErrorEntry == <<"Error: cannot open file">>

\* the entry create_memory_snapshot stores for one path of pptx_files
DeckEntry(files, path) ==
    IF OpensAsDeck(files, path) THEN SlideLabels(files[path].slides) ELSE ErrorEntry

\* the entry create_memory_snapshot stores for one path of excel_files
BookEntry(files, path) ==
    IF OpensAsBook(files, path) THEN files[path].sheets ELSE ErrorEntry

RECURSIVE SnapshotDecks(_, _, _)
SnapshotDecks(files, paths, mem) ==
    IF paths = <<>> THEN mem
    ELSE SnapshotDecks(files, Tail(paths),
             DictSet(mem, basename(Head(paths)), DeckEntry(files, Head(paths))))

RECURSIVE SnapshotBooks(_, _, _)
SnapshotBooks(files, paths, mem) ==
    IF paths = <<>> THEN mem
    ELSE SnapshotBooks(files, Tail(paths),
             DictSet(mem, basename(Head(paths)), BookEntry(files, Head(paths))))

\* mutant: the loop over excel_files is left out
create_memory_snapshot_decks_only(files, pptx, excel) ==
    [Memory |-> SnapshotDecks(files, pptx, EmptyDict)]

create_memory_snapshot(files, pptx, excel) ==
    [Memory |-> SnapshotBooks(files, excel, SnapshotDecks(files, pptx, EmptyDict))]

RECURSIVE MappingOver(_, _)
MappingOver(paths, mapping) ==
    IF paths = <<>> THEN mapping
    ELSE MappingOver(Tail(paths), DictSet(mapping, basename(Head(paths)), Head(paths)))

\* {os.path.basename(f): f for f in pptx_files + excel_files}
create_file_path_mapping(pptx, excel) == MappingOver(pptx \o excel, EmptyDict)

\* what an activity hands back: a string, the files it leaves, or an exception
Returned(response, files) == [raised |-> FALSE, response |-> response, files |-> files]
Raised(files) == [raised |-> TRUE, response |-> None, files |-> files]

create_slide_xml(files, path, index) ==
    "<slide " \o ToString(index) \o " rev " \o ToString(files[path].rev) \o ">"

to_markdown(files, path, sheet) ==
    "|" \o sheet \o " rev " \o ToString(files[path].rev) \o "|"

\* mutant: the upper bound of the index test is off by one
get_slide_xml_inclusive(files, path, index) ==
    IF ~OpensAsDeck(files, path) THEN Returned("Error: cannot open file", files)
    ELSE IF 0 <= index /\ index <= files[path].slides
         THEN Returned(create_slide_xml(files, path, index), files)
         ELSE Returned("Error: Slide index " \o ToString(index) \o " out of range.", files)

get_slide_xml(files, path, index) ==
    IF ~OpensAsDeck(files, path) THEN Returned("Error: cannot open file", files)
    ELSE IF 0 <= index /\ index < files[path].slides
         THEN Returned(create_slide_xml(files, path, index), files)
         ELSE Returned("Error: Slide index " \o ToString(index) \o " out of range.", files)

get_excel_table(files, path, sheet) ==
    IF OpensAsBook(files, path) /\ \E i \in DOMAIN files[path].sheets : files[path].sheets[i] = sheet
    THEN Returned(to_markdown(files, path, sheet), files)
    ELSE Returned("Error: cannot read sheet", files)

\* exec(code, {}, local_vars) then prs.save(file_path)
SavedDeck(files, path, code) ==
    [files EXCEPT ![path] = [@ EXCEPT
        !.slides = IF code = "add_slide" THEN @ + 1 ELSE @,
        !.rev = @ + 1]]

\* exec(code, {}, local_vars) then ExcelWriter(file_path, mode='a', if_sheet_exists='replace')
SavedBook(files, path, code) == [files EXCEPT ![path] = [@ EXCEPT !.rev = @ + 1]]

\* mutant: the presentation is saved whether or not the code raised
modify_slide_saving_always(files, path, index, code) ==
    IF ~OpensAsDeck(files, path)
    THEN Returned("Error: cannot open file, code: " \o code, files)
    ELSE IF 0 <= index /\ index < files[path].slides
         THEN IF code = "raise"
              THEN Returned("Error: raised, code: " \o code, SavedDeck(files, path, code))
              ELSE Returned(create_slide_xml(SavedDeck(files, path, code), path, index),
                            SavedDeck(files, path, code))
         ELSE Returned("Error: Slide index " \o ToString(index) \o " out of range.", files)

modify_slide(files, path, index, code) ==
    IF ~OpensAsDeck(files, path)
    THEN Returned("Error: cannot open file, code: " \o code, files)
    ELSE IF 0 <= index /\ index < files[path].slides
         THEN IF code = "raise"
              THEN Returned("Error: raised, code: " \o code, files)
              ELSE Returned(create_slide_xml(SavedDeck(files, path, code), path, index),
                            SavedDeck(files, path, code))
         ELSE Returned("Error: Slide index " \o ToString(index) \o " out of range.", files)

modify_excel(files, path, sheet, code) ==
    IF ~(OpensAsBook(files, path) /\ \E i \in DOMAIN files[path].sheets : files[path].sheets[i] = sheet)
    THEN Returned("Error: cannot read sheet, code: " \o code, files)
    ELSE IF code = "raise"
         THEN Returned("Error: raised, code: " \o code, files)
         ELSE Returned(to_markdown(SavedBook(files, path, code), path, sheet),
                       SavedBook(files, path, code))

\* tool_args[key] for every key in keys succeeds (no KeyError)
HasKeys(tool_args, keys) == keys \subseteq DOMAIN tool_args

\* mutant: the message for an unknown tool leaves the name out
execute_tool_unnamed(files, tool_name, tool_args) ==
    IF tool_name = "get_slide" THEN
        IF HasKeys(tool_args, {"file_path", "slide_index"})
        THEN get_slide_xml(files, tool_args["file_path"], tool_args["slide_index"])
        ELSE Raised(files)
    ELSE IF tool_name = "get_excel_data" THEN
        IF HasKeys(tool_args, {"file_path", "sheet_name"})
        THEN get_excel_table(files, tool_args["file_path"], tool_args["sheet_name"])
        ELSE Raised(files)
    ELSE IF tool_name = "modify_slide" THEN
        IF HasKeys(tool_args, {"file_path", "slide_index", "code"})
        THEN modify_slide(files, tool_args["file_path"], tool_args["slide_index"], tool_args["code"])
        ELSE Raised(files)
    ELSE IF tool_name = "modify_excel" THEN
        IF HasKeys(tool_args, {"file_path", "sheet_name", "code"})
        THEN modify_excel(files, tool_args["file_path"], tool_args["sheet_name"], tool_args["code"])
        ELSE Raised(files)
    ELSE Returned("Unknown tool", files)

execute_tool(files, tool_name, tool_args) ==
    IF tool_name = "get_slide" THEN
        IF HasKeys(tool_args, {"file_path", "slide_index"})
        THEN get_slide_xml(files, tool_args["file_path"], tool_args["slide_index"])
        ELSE Raised(files)
    ELSE IF tool_name = "get_excel_data" THEN
        IF HasKeys(tool_args, {"file_path", "sheet_name"})
        THEN get_excel_table(files, tool_args["file_path"], tool_args["sheet_name"])
        ELSE Raised(files)
    ELSE IF tool_name = "modify_slide" THEN
        IF HasKeys(tool_args, {"file_path", "slide_index", "code"})
        THEN modify_slide(files, tool_args["file_path"], tool_args["slide_index"], tool_args["code"])
        ELSE Raised(files)
    ELSE IF tool_name = "modify_excel" THEN
        IF HasKeys(tool_args, {"file_path", "sheet_name", "code"})
        THEN modify_excel(files, tool_args["file_path"], tool_args["sheet_name"], tool_args["code"])
        ELSE Raised(files)
    ELSE Returned("Unknown tool: " \o tool_name, files)

\* ---------------------------------------------------------------- the turns
\* json.dumps / json.loads: a JSON text is kept as the value it encodes; a
\* text that is not JSON has no "json" field and json.loads raises on it
JsonText(value) == [json |-> value]
NotJson == [garbage |-> "{"]
IsJson(text) == "json" \in DOMAIN text
json_loads(text) == text.json

\* self.messages = [{"role": "system", "content": "You are an AI ..."}]
InitialMessages == <<[role |-> "system", content |-> [prompt |-> "initial"]]>>

\* the f-string written into turn 0: the prompt text around the two dumps
SystemContent(prompt, mem, mapping) ==
    [prompt |-> prompt, memory |-> JsonText(mem), file_paths |-> JsonText(mapping)]

\* mutant: the prompt text carries the time at which it is written
RefreshPromptTimed(v) == "refresh at " \o ToString(clock)

\* the prompt text of the context refresh at the start of a cycle
RefreshPrompt(v) == IF v = "base" THEN "base refresh" ELSE "temporal refresh"

\* mutant: the log is rebuilt around the new system message
SetSystemContentReset(msgs, content) == <<[role |-> "system", content |-> content]>>

\* self.messages[0]["content"] = ...
SetSystemContent(msgs, content) == [msgs EXCEPT ![1].content = content]

\* self.messages.append({"role": "user", "content": self.user_query})
UserTurn(query) == [role |-> "user", content |-> query]

\* self.messages.append({"role": "assistant", "content": ..., "tool_calls": ...})
AssistantTurn(assistant_message) ==
    [role |-> "assistant",
     content |-> assistant_message.content,
     tool_calls |-> assistant_message.tool_calls]

\* mutant: the tool turn is keyed by the function name instead of the call id
ToolTurnNameAsId(tool_call, response) ==
    [role |-> "tool",
     tool_call_id |-> tool_call.function.name,
     name |-> tool_call.function.name,
     content |-> response]

\* self.messages.append({"role": "tool", "tool_call_id": ..., "name": ..., "content": ...})
ToolTurn(tool_call, response) ==
    [role |-> "tool",
     tool_call_id |-> tool_call.id,
     name |-> tool_call.function.name,
     content |-> response]

\* mutant: a single tool call is taken for none
HasToolCallsOffByOne(assistant_message) ==
    ~assistant_message.tool_calls.is_none /\ Len(assistant_message.tool_calls.items) > 1

\* if assistant_message["tool_calls"]:  (None and [] are falsy)
HasToolCalls(assistant_message) ==
    ~assistant_message.tool_calls.is_none /\ assistant_message.tool_calls.items # <<>>

\* mutant: modify_excel is left out of the list
IsMutatingSlideOnly(tool_name) == tool_name \in {"modify_slide"}

\* if tool_name in ["modify_slide", "modify_excel"]:
IsMutating(tool_name) == tool_name \in {"modify_slide", "modify_excel"}

\* mutant: the catalog declares a fifth function the dispatcher does not know
define_tools_with_delete ==
    <<[type |-> "function",
       function |-> [name |-> "get_slide", required |-> <<"file_path", "slide_index">>]],
      [type |-> "function",
       function |-> [name |-> "get_excel_data", required |-> <<"file_path", "sheet_name">>]],
      [type |-> "function",
       function |-> [name |-> "modify_slide",
                     required |-> <<"file_path", "slide_index", "code">>]],
      [type |-> "function",
       function |-> [name |-> "modify_excel",
                     required |-> <<"file_path", "sheet_name", "code">>]],
      [type |-> "function",
       function |-> [name |-> "delete_file", required |-> <<"file_path">>]]>>

\* define_tools(): the catalog handed to the reasoner (name and required
\* parameters of each function; descriptions left out)
define_tools ==
    <<[type |-> "function",
       function |-> [name |-> "get_slide", required |-> <<"file_path", "slide_index">>]],
      [type |-> "function",
       function |-> [name |-> "get_excel_data", required |-> <<"file_path", "sheet_name">>]],
      [type |-> "function",
       function |-> [name |-> "modify_slide",
                     required |-> <<"file_path", "slide_index", "code">>]],
      [type |-> "function",
       function |-> [name |-> "modify_excel",
                     required |-> <<"file_path", "sheet_name", "code">>]]>>

\* ------------------------------------------------------------ the environment
\* the document sets a signal may carry
DocSets ==
    { [pptx_files |-> <<DeckA>>, excel_files |-> <<BookA>>],
      [pptx_files |-> <<DeckB, Gone>>, excel_files |-> <<>>] }

\* the query of the k-th signal delivered (queries are pairwise distinct)
QueryOf(k) == "q" \o ToString(k)

\* the payloads the k-th signal may carry
Payloads(k) ==
    { [query |-> QueryOf(k), pptx_files |-> d.pptx_files, excel_files |-> d.excel_files] :
        d \in DocSets }

\* what the reasoner may ask for in one tool call: <<name, arguments>>
GetSlide == <<"get_slide", JsonText([file_path |-> DeckA, slide_index |-> 0])>>
GetSlideOutOfRange == <<"get_slide", JsonText([file_path |-> DeckA, slide_index |-> 5])>>
ModifySlide ==
    <<"modify_slide", JsonText([file_path |-> DeckA, slide_index |-> 0, code |-> "add_slide"])>>
ModifyExcel ==
    <<"modify_excel", JsonText([file_path |-> BookA, sheet_name |-> "Sheet1", code |-> "edit"])>>
DeleteFile == <<"delete_file", JsonText([file_path |-> DeckA])>>
GetSlideNoIndex == <<"get_slide", JsonText([file_path |-> DeckA])>>
GetSlideNotJson == <<"get_slide", NotJson>>

SingleRequests ==
    {GetSlide, GetSlideOutOfRange, ModifySlide, ModifyExcel, DeleteFile,
     GetSlideNoIndex, GetSlideNotJson}
PairedRequests == {GetSlide, ModifySlide}

\* the id the reasoner gives the k-th tool call of its n-th reply
CallId(n, k) == "call_" \o ToString(n) \o "_" \o ToString(k)

ToolCall(n, k, request) ==
    [id |-> CallId(n, k), type |-> "function",
     function |-> [name |-> request[1], arguments |-> request[2]]]

\* the replies call_llm may return as its n-th result
Replies(n) ==
    { [content |-> "done", tool_calls |-> NoList],
      [content |-> "done", tool_calls |-> List(<<>>)] }
    \cup { [content |-> "", tool_calls |-> List(<<ToolCall(n, 1, r)>>)] : r \in SingleRequests }
    \cup { [content |-> "", tool_calls |-> List(<<ToolCall(n, 1, r), ToolCall(n, 2, s)>>)] :
             r \in PairedRequests, s \in PairedRequests }

\* --------------------------------------------------- the user interface
\* no Streamlit session, no poll under way
NoAgent == [created |-> FALSE, pptx_files |-> <<>>, excel_files |-> <<>>, shares |-> 0]
NoSession == [agent |-> NoAgent, threads |-> <<>>, current_thread |-> 0]
NotPolling == [active |-> FALSE, i |-> 0, message_count |-> 0, returned |-> "nothing"]

\* ------------------------------------------------------------- the workflow
\* the events of an instance's history: the first workflow task, a signal
\* with its payload, a workflow task in which wait_condition returns, the
\* completion of the activity in flight with its result
StartedEvent == [type |-> "started"]
SignalEvent(input_data) == [type |-> "signal", input |-> input_data]
TaskEvent == [type |-> "task"]
ActivityEvent(result) == [type |-> "activity", result |-> result]

\* the history is kept only where recovery is studied
NotRecorded == [on |-> FALSE, latest |-> FALSE, events |-> <<>>]
Recorded(events) == [on |-> TRUE, latest |-> FALSE, events |-> events]
\* only the latest signal event is kept
LatestSignal(events) == [on |-> FALSE, latest |-> TRUE, events |-> events]
Record(h, event) ==
    IF h.on THEN Recorded(Append(h.events, event))
    ELSE IF h.latest /\ event.type = "signal" THEN LatestSignal(<<event>>)
    ELSE h

\* no activity is in flight
NoActivity == [activity |-> "none"]

\* no cycle has started yet
NoCycle == [signal |-> 0, query |-> "", pptx_files |-> <<>>, excel_files |-> <<>>]

\* PPTAgentWorkflow.__init__
Constructed ==
    /\ variant \in {"base", "temporal"}
    /\ pc = "start"
    /\ messages = <<>>
    /\ pptx_files = <<>>
    /\ excel_files = <<>>
    /\ file_path_mapping = EmptyDict
    /\ memory = EmptyDict
    /\ user_input_received = FALSE
    /\ user_query = ""
    /\ inflight = NoActivity
    /\ tool_calls = <<>>
    /\ tool_index = 0
    /\ tool_response = None
    /\ fs = InitialFiles
    /\ delivered = 0
    /\ llm_calls = 0
    /\ cycle = NoCycle
    /\ clock = 0
    /\ snapshot_at = 0
    /\ tool_done_at = 0
    /\ turn_at = <<>>
    /\ iteration = 0
    /\ max_iterations = 0
    /\ tools = define_tools
    /\ session_state = NoSession
    /\ signals = <<>>
    /\ poll = NotPolling

Init == Constructed /\ history = NotRecorded

\* the arguments create_memory_snapshot is scheduled with
SnapshotArgs ==
    [activity |-> "create_memory_snapshot",
     pptx_files |-> pptx_files, excel_files |-> excel_files]

\* the arguments create_file_path_mapping is scheduled with
MappingArgs ==
    [activity |-> "create_file_path_mapping",
     pptx_files |-> pptx_files, excel_files |-> excel_files]

\* run, up to the first wait_condition
RunStart ==
    /\ pc = "start"
    /\ messages' = InitialMessages
    /\ turn_at' = <<0>>
    /\ pc' = "wait"
    /\ history' = Record(history, StartedEvent)
    /\ UNCHANGED <<ui, tools, variant, iteration, max_iterations, pptx_files, excel_files, file_path_mapping, memory,
                   user_input_received, user_query, inflight, tool_calls,
                   tool_index, tool_response, fs, delivered, llm_calls, cycle,
                   clock, snapshot_at, tool_done_at>>

\* the mapping the signal handler leaves in self.file_path_mapping
HandlerMapping(v, old, pptx, excel) ==
    IF v = "base" THEN create_file_path_mapping(pptx, excel) ELSE old

\* mutant: a key the payload lacks leaves the field as it was
UserInputKeepingFields(input_data) ==
    /\ user_query' = Get(input_data, "query", user_query)
    /\ pptx_files' = Get(input_data, "pptx_files", pptx_files)
    /\ excel_files' = Get(input_data, "excel_files", excel_files)
    /\ file_path_mapping' =
           HandlerMapping(variant, file_path_mapping, pptx_files', excel_files')
    /\ user_input_received' = TRUE
    /\ delivered' = delivered + 1
    /\ history' = Record(history, SignalEvent(input_data))
    /\ UNCHANGED <<ui, tools, variant, iteration, max_iterations, pc, messages, memory, inflight, tool_calls, tool_index,
                   tool_response, fs, llm_calls, cycle, clock, snapshot_at,
                   tool_done_at, turn_at>>

\* mutant: the signal handler appends the user turn itself
UserInputAppending(input_data) ==
    /\ user_query' = Get(input_data, "query", "")
    /\ pptx_files' = Get(input_data, "pptx_files", <<>>)
    /\ excel_files' = Get(input_data, "excel_files", <<>>)
    /\ file_path_mapping' =
           HandlerMapping(variant, file_path_mapping, pptx_files', excel_files')
    /\ user_input_received' = TRUE
    /\ delivered' = delivered + 1
    /\ messages' = IF pc = "start" THEN messages ELSE Append(messages, UserTurn(user_query'))
    /\ turn_at' = IF pc = "start" THEN turn_at ELSE Append(turn_at, clock)
    /\ history' = Record(history, SignalEvent(input_data))
    /\ UNCHANGED <<ui, tools, variant, iteration, max_iterations, pc, memory, inflight, tool_calls, tool_index,
                   tool_response, fs, llm_calls, cycle, clock, snapshot_at,
                   tool_done_at>>

\* the signal handler user_input(input_data)
UserInput(input_data) ==
    /\ user_query' = Get(input_data, "query", "")
    /\ pptx_files' = Get(input_data, "pptx_files", <<>>)
    /\ excel_files' = Get(input_data, "excel_files", <<>>)
    /\ file_path_mapping' =
           HandlerMapping(variant, file_path_mapping, pptx_files', excel_files')
    /\ user_input_received' = TRUE
    /\ delivered' = delivered + 1
    /\ history' = Record(history, SignalEvent(input_data))
    /\ UNCHANGED <<ui, tools, variant, iteration, max_iterations, pc, messages, memory, inflight, tool_calls, tool_index,
                   tool_response, fs, llm_calls, cycle, clock, snapshot_at,
                   tool_done_at, turn_at>>

Signal ==
    /\ delivered < MaxSignals
    /\ \E input_data \in Payloads(delivered + 1) : UserInput(input_data)

\* mutant: the flag is not cleared when wait_condition returns
WaitReturnKeepingFlag ==
    /\ pc = "wait"
    /\ user_input_received
    /\ user_input_received' = TRUE
    /\ inflight' = SnapshotArgs
    /\ pc' = "snapshot"
    /\ cycle' = [signal |-> delivered, query |-> user_query,
                 pptx_files |-> pptx_files, excel_files |-> excel_files]
    /\ history' = Record(history, TaskEvent)
    /\ UNCHANGED <<ui, tools, variant, iteration, max_iterations, messages, pptx_files, excel_files, file_path_mapping,
                   memory, user_query, tool_calls, tool_index, tool_response, fs,
                   delivered, llm_calls, clock, snapshot_at, tool_done_at, turn_at>>

\* wait_condition returns: clear the flag, schedule create_memory_snapshot
WaitReturn ==
    /\ pc = "wait"
    /\ user_input_received
    /\ user_input_received' = FALSE
    /\ inflight' = SnapshotArgs
    /\ pc' = "snapshot"
    /\ cycle' = [signal |-> delivered, query |-> user_query,
                 pptx_files |-> pptx_files, excel_files |-> excel_files]
    /\ history' = Record(history, TaskEvent)
    /\ UNCHANGED <<ui, tools, variant, iteration, max_iterations, messages, pptx_files, excel_files, file_path_mapping,
                   memory, user_query, tool_calls, tool_index, tool_response, fs,
                   delivered, llm_calls, clock, snapshot_at, tool_done_at, turn_at>>

\* mutant: the refreshed system message is appended instead of written to turn 0
RefreshedAppending(msgs, v, mem, mapping, query) ==
    msgs \o <<[role |-> "system", content |-> SystemContent(RefreshPrompt(v), mem, mapping)],
              UserTurn(query)>>

\* mutant: the user turn is appended without rewriting turn 0
RefreshedUserOnly(msgs, v, mem, mapping, query) == Append(msgs, UserTurn(query))

\* rewrite turn 0 from the snapshot and the mapping, append the user turn
Refreshed(msgs, v, mem, mapping, query) ==
    Append(SetSystemContent(msgs, SystemContent(RefreshPrompt(v), mem, mapping)),
           UserTurn(query))

\* create_memory_snapshot returns at the start of a cycle
SnapshotReturn ==
    /\ pc = "snapshot"
    /\ memory' = create_memory_snapshot(fs, inflight.pptx_files, inflight.excel_files)
    /\ clock' = clock + 1
    /\ snapshot_at' = clock'
    /\ IF variant = "base"
       THEN /\ messages' = Refreshed(messages, variant, memory', file_path_mapping, user_query)
            /\ turn_at' = Append(turn_at, clock')
            /\ inflight' = [activity |-> "call_llm"]
            /\ pc' = "llm"
       ELSE /\ inflight' = MappingArgs
            /\ pc' = "mapping"
            /\ UNCHANGED <<messages, turn_at>>
    /\ history' = Record(history, ActivityEvent(memory'))
    /\ UNCHANGED <<ui, tools, variant, iteration, max_iterations, pptx_files, excel_files, file_path_mapping,
                   user_input_received, user_query, tool_calls, tool_index,
                   tool_response, fs, delivered, llm_calls, cycle, tool_done_at>>

\* create_file_path_mapping returns (temporal_agent only)
MappingReturn ==
    /\ pc = "mapping"
    /\ file_path_mapping' = create_file_path_mapping(inflight.pptx_files, inflight.excel_files)
    /\ clock' = clock + 1
    /\ messages' = Refreshed(messages, variant, memory, file_path_mapping', user_query)
    /\ turn_at' = Append(turn_at, clock')
    /\ inflight' = [activity |-> "call_llm"]
    /\ pc' = "llm"
    /\ history' = Record(history, ActivityEvent(file_path_mapping'))
    /\ UNCHANGED <<ui, tools, variant, iteration, max_iterations, pptx_files, excel_files, memory, user_input_received,
                   user_query, tool_calls, tool_index, tool_response, fs, delivered,
                   llm_calls, cycle, snapshot_at, tool_done_at>>

\* mutant: the loop schedules the last tool call of the reply whatever k is
DispatchLast(calls, k) ==
    /\ tool_index' = k
    /\ IF IsJson(calls[Len(calls)].function.arguments)
       THEN /\ inflight' = [activity |-> "execute_tool",
                            tool_name |-> calls[Len(calls)].function.name,
                            tool_args |-> json_loads(calls[Len(calls)].function.arguments)]
            /\ pc' = "tool"
       ELSE /\ inflight' = NoActivity
            /\ pc' = "task_failed"

\* the for loop reaches tool call k: json.loads its arguments, schedule execute_tool
Dispatch(calls, k) ==
    /\ tool_index' = k
    /\ IF IsJson(calls[k].function.arguments)
       THEN /\ inflight' = [activity |-> "execute_tool",
                            tool_name |-> calls[k].function.name,
                            tool_args |-> json_loads(calls[k].function.arguments)]
            /\ pc' = "tool"
       ELSE /\ inflight' = NoActivity
            /\ pc' = "task_failed"

\* mutant: a reply without tool calls continues the inner loop instead of leaving it
LLMReturnContinue(assistant_message) ==
    /\ pc = "llm"
    /\ llm_calls' = llm_calls + 1
    /\ clock' = clock + 1
    /\ messages' = Append(messages, AssistantTurn(assistant_message))
    /\ turn_at' = Append(turn_at, clock')
    /\ tool_calls' = assistant_message.tool_calls.items
    /\ IF HasToolCalls(assistant_message)
       THEN Dispatch(assistant_message.tool_calls.items, 1)
       ELSE /\ pc' = "llm"
            /\ inflight' = [activity |-> "call_llm"]
            /\ tool_index' = 0
    /\ history' = Record(history, ActivityEvent(assistant_message))
    /\ UNCHANGED <<ui, tools, variant, iteration, max_iterations, pptx_files, excel_files, file_path_mapping, memory,
                   user_input_received, user_query, tool_response, fs, delivered,
                   cycle, snapshot_at, tool_done_at>>

\* call_llm returns: append the assistant turn, then tools or back to the wait
LLMReturn(assistant_message) ==
    /\ pc = "llm"
    /\ llm_calls' = llm_calls + 1
    /\ clock' = clock + 1
    /\ messages' = Append(messages, AssistantTurn(assistant_message))
    /\ turn_at' = Append(turn_at, clock')
    /\ tool_calls' = assistant_message.tool_calls.items
    /\ IF HasToolCalls(assistant_message)
       THEN Dispatch(assistant_message.tool_calls.items, 1)
       ELSE /\ pc' = "wait"
            /\ inflight' = NoActivity
            /\ tool_index' = 0
    /\ history' = Record(history, ActivityEvent(assistant_message))
    /\ UNCHANGED <<ui, tools, variant, iteration, max_iterations, pptx_files, excel_files, file_path_mapping, memory,
                   user_input_received, user_query, tool_response, fs, delivered,
                   cycle, snapshot_at, tool_done_at>>

Reasoner ==
    /\ llm_calls < MaxLLMCalls
    /\ \E assistant_message \in Replies(llm_calls + 1) : LLMReturn(assistant_message)

\* mutant: the for loop is left after its first tool call
NextStepBreak ==
    /\ tool_index' = 0
    /\ inflight' = [activity |-> "call_llm"]
    /\ pc' = "llm"

\* mutant: the loop steps over every other tool call
NextStepSkip ==
    IF tool_index + 1 < Len(tool_calls)
    THEN Dispatch(tool_calls, tool_index + 2)
    ELSE /\ tool_index' = 0
         /\ inflight' = [activity |-> "call_llm"]
         /\ pc' = "llm"

\* after the tool turn of tool call tool_index: the next tool call, or call_llm
NextStep ==
    IF tool_index < Len(tool_calls)
    THEN Dispatch(tool_calls, tool_index + 1)
    ELSE /\ tool_index' = 0
         /\ inflight' = [activity |-> "call_llm"]
         /\ pc' = "llm"

\* execute_tool returns
ToolReturn ==
    /\ pc = "tool"
    /\ LET done == execute_tool(fs, inflight.tool_name, inflight.tool_args) IN
       /\ ~done.raised
       /\ fs' = done.files
       /\ clock' = clock + 1
       /\ history' = Record(history, ActivityEvent(done.response))
       /\ IF variant = "temporal" /\ IsMutating(inflight.tool_name)
          THEN /\ tool_response' = done.response
               /\ tool_done_at' = clock'
               /\ inflight' = SnapshotArgs
               /\ pc' = "resnapshot"
               /\ UNCHANGED <<messages, turn_at, tool_index>>
          ELSE /\ messages' = Append(messages, ToolTurn(tool_calls[tool_index], done.response))
               /\ turn_at' = Append(turn_at, clock')
               /\ NextStep
               /\ UNCHANGED <<tool_response, tool_done_at>>
    /\ UNCHANGED <<ui, tools, variant, iteration, max_iterations, pptx_files, excel_files, file_path_mapping, memory,
                   user_input_received, user_query, tool_calls, delivered,
                   llm_calls, cycle, snapshot_at>>

\* mutant: turn 0 is rewritten in one step, the tool turn is left for a later one
ReSnapshotReturnRewriteOnly ==
    /\ pc = "resnapshot"
    /\ memory' = create_memory_snapshot(fs, inflight.pptx_files, inflight.excel_files)
    /\ clock' = clock + 1
    /\ snapshot_at' = clock'
    /\ messages' = SetSystemContent(messages,
                       SystemContent("temporal after tool", memory', file_path_mapping))
    /\ pc' = "append"
    /\ history' = Record(history, ActivityEvent(memory'))
    /\ UNCHANGED <<ui, tools, variant, iteration, max_iterations, pptx_files, excel_files, file_path_mapping,
                   user_input_received, user_query, inflight, tool_calls, tool_index,
                   tool_response, fs, delivered, llm_calls, cycle, tool_done_at,
                   turn_at>>

\* create_memory_snapshot returns after a mutating tool (temporal_agent only)
ReSnapshotReturn ==
    /\ pc = "resnapshot"
    /\ memory' = create_memory_snapshot(fs, inflight.pptx_files, inflight.excel_files)
    /\ clock' = clock + 1
    /\ snapshot_at' = clock'
    /\ messages' =
           Append(SetSystemContent(messages,
                      SystemContent("temporal after tool", memory', file_path_mapping)),
                  ToolTurn(tool_calls[tool_index], tool_response))
    /\ turn_at' = Append(turn_at, tool_done_at)
    /\ tool_response' = None
    /\ NextStep
    /\ history' = Record(history, ActivityEvent(memory'))
    /\ UNCHANGED <<ui, tools, variant, iteration, max_iterations, pptx_files, excel_files, file_path_mapping,
                   user_input_received, user_query, tool_calls, fs, delivered,
                   llm_calls, cycle, tool_done_at>>

Next ==
    \/ RunStart
    \/ Signal
    \/ WaitReturn
    \/ SnapshotReturn
    \/ MappingReturn
    \/ Reasoner
    \/ ToolReturn
    \/ ReSnapshotReturn

Spec == Init /\ [][Next]_vars

\* --------------------------------------------- the cooperative environment
\* A cooperative reasoner: after finitely many replies with tool calls it
\* returns one without.  Here: its MaxLLMCalls-th reply has no tool calls.
CooperativeReplies(n) ==
    IF n < MaxLLMCalls
    THEN Replies(n)
    ELSE {r \in Replies(n) : r.tool_calls.is_none \/ r.tool_calls.items = <<>>}

CooperativeReasoner ==
    /\ llm_calls < MaxLLMCalls
    /\ \E assistant_message \in CooperativeReplies(llm_calls + 1) :
           LLMReturn(assistant_message)

\* a cycle starts only while the reasoner has a reply left for it
LiveWaitReturn == llm_calls < MaxLLMCalls /\ WaitReturn

LiveNext ==
    \/ RunStart
    \/ Signal
    \/ LiveWaitReturn
    \/ SnapshotReturn
    \/ MappingReturn
    \/ CooperativeReasoner
    \/ ToolReturn
    \/ ReSnapshotReturn

\* every activity that can return does return: weak fairness on the
\* completion of each execute_activity the run coroutine awaits
LiveSpec ==
    /\ Init
    /\ [][LiveNext]_vars
    /\ WF_vars(SnapshotReturn)
    /\ WF_vars(MappingReturn)
    /\ WF_vars(CooperativeReasoner)
    /\ WF_vars(ToolReturn)
    /\ WF_vars(ReSnapshotReturn)

\* the query handler: return self.messages.  Temporal answers a query only
\* once the first workflow task has run, that is after RunStart.
get_conversation_history == messages

\* ----------------------------------------------------- recovery by replay
\* After a worker crash Temporal runs PPTAgentWorkflow again from __init__
\* and feeds it the recorded events in order; activities are not executed
\* again, their recorded results are returned at the awaits.
MaxEvents == 10

\* the instance's fields and the await run is suspended at
WorkflowState ==
    [pc |-> pc, messages |-> messages, pptx_files |-> pptx_files,
     excel_files |-> excel_files, file_path_mapping |-> file_path_mapping,
     memory |-> memory, user_input_received |-> user_input_received,
     user_query |-> user_query, inflight |-> inflight, tool_calls |-> tool_calls,
     tool_index |-> tool_index, tool_response |-> tool_response, tools |-> tools]

\* PPTAgentWorkflow.__init__ on the replaying worker
ReplayConstructed ==
    [pc |-> "start", messages |-> <<>>, pptx_files |-> <<>>, excel_files |-> <<>>,
     file_path_mapping |-> EmptyDict, memory |-> EmptyDict,
     user_input_received |-> FALSE, user_query |-> "", inflight |-> NoActivity,
     tool_calls |-> <<>>, tool_index |-> 0, tool_response |-> None,
     tools |-> define_tools]

\* run, up to the first wait_condition
ReplayRunStart(ws) == [ws EXCEPT !.messages = InitialMessages, !.pc = "wait"]

\* user_input(input_data)
ReplayUserInput(v, ws, input_data) ==
    [ws EXCEPT
        !.user_query = Get(input_data, "query", ""),
        !.pptx_files = Get(input_data, "pptx_files", <<>>),
        !.excel_files = Get(input_data, "excel_files", <<>>),
        !.file_path_mapping =
            HandlerMapping(v, ws.file_path_mapping,
                           Get(input_data, "pptx_files", <<>>),
                           Get(input_data, "excel_files", <<>>)),
        !.user_input_received = TRUE]

\* wait_condition returns: clear the flag, schedule create_memory_snapshot
ReplayWaitReturn(ws) ==
    [ws EXCEPT
        !.user_input_received = FALSE,
        !.inflight = [activity |-> "create_memory_snapshot",
                      pptx_files |-> ws.pptx_files, excel_files |-> ws.excel_files],
        !.pc = "snapshot"]

\* the for loop reaches tool call k
ReplayDispatch(ws, calls, k) ==
    IF IsJson(calls[k].function.arguments)
    THEN [ws EXCEPT
            !.tool_index = k,
            !.inflight = [activity |-> "execute_tool",
                          tool_name |-> calls[k].function.name,
                          tool_args |-> json_loads(calls[k].function.arguments)],
            !.pc = "tool"]
    ELSE [ws EXCEPT !.tool_index = k, !.inflight = NoActivity, !.pc = "task_failed"]

\* after a tool turn: the next tool call, or call_llm
ReplayNextStep(ws) ==
    IF ws.tool_index < Len(ws.tool_calls)
    THEN ReplayDispatch(ws, ws.tool_calls, ws.tool_index + 1)
    ELSE [ws EXCEPT !.tool_index = 0, !.inflight = [activity |-> "call_llm"], !.pc = "llm"]

\* the awaited create_memory_snapshot returns result at the start of a cycle
ReplaySnapshotReturn(v, ws, result) ==
    IF v = "base"
    THEN [ws EXCEPT
            !.memory = result,
            !.messages = Refreshed(ws.messages, v, result, ws.file_path_mapping, ws.user_query),
            !.inflight = [activity |-> "call_llm"],
            !.pc = "llm"]
    ELSE [ws EXCEPT
            !.memory = result,
            !.inflight = [activity |-> "create_file_path_mapping",
                          pptx_files |-> ws.pptx_files, excel_files |-> ws.excel_files],
            !.pc = "mapping"]

\* the awaited create_file_path_mapping returns result
ReplayMappingReturn(v, ws, result) ==
    [ws EXCEPT
        !.file_path_mapping = result,
        !.messages = Refreshed(ws.messages, v, ws.memory, result, ws.user_query),
        !.inflight = [activity |-> "call_llm"],
        !.pc = "llm"]

\* the awaited call_llm returns result
ReplayLLMReturn(ws, result) ==
    LET appended == [ws EXCEPT !.messages = Append(ws.messages, AssistantTurn(result)),
                               !.tool_calls = result.tool_calls.items]
    IN IF HasToolCalls(result)
       THEN ReplayDispatch(appended, result.tool_calls.items, 1)
       ELSE [appended EXCEPT !.pc = "wait", !.inflight = NoActivity, !.tool_index = 0]

\* the awaited execute_tool returns result
ReplayToolReturn(v, ws, result) ==
    IF v = "temporal" /\ IsMutating(ws.inflight.tool_name)
    THEN [ws EXCEPT
            !.tool_response = result,
            !.inflight = [activity |-> "create_memory_snapshot",
                          pptx_files |-> ws.pptx_files, excel_files |-> ws.excel_files],
            !.pc = "resnapshot"]
    ELSE ReplayNextStep(
            [ws EXCEPT !.messages =
                Append(ws.messages, ToolTurn(ws.tool_calls[ws.tool_index], result))])

\* mutant: temporal_agent loses the held tool response over the rebuild
ReplayReSnapshotReturnDropping(ws, result) ==
    ReplayNextStep(
        [ws EXCEPT
            !.memory = result,
            !.messages =
                SetSystemContent(ws.messages,
                    SystemContent("temporal after tool", result, ws.file_path_mapping)),
            !.tool_response = None])

\* the awaited create_memory_snapshot returns result after a mutating tool
ReplayReSnapshotReturn(ws, result) ==
    ReplayNextStep(
        [ws EXCEPT
            !.memory = result,
            !.messages =
                Append(SetSystemContent(ws.messages,
                           SystemContent("temporal after tool", result, ws.file_path_mapping)),
                       ToolTurn(ws.tool_calls[ws.tool_index], ws.tool_response)),
            !.tool_response = None])

\* the workflow code run on one recorded event
ReplayEvent(v, ws, event) ==
    IF event.type = "started" THEN ReplayRunStart(ws)
    ELSE IF event.type = "signal" THEN ReplayUserInput(v, ws, event.input)
    ELSE IF event.type = "task" THEN ReplayWaitReturn(ws)
    ELSE IF ws.pc = "snapshot" THEN ReplaySnapshotReturn(v, ws, event.result)
    ELSE IF ws.pc = "mapping" THEN ReplayMappingReturn(v, ws, event.result)
    ELSE IF ws.pc = "llm" THEN ReplayLLMReturn(ws, event.result)
    ELSE IF ws.pc = "tool" THEN ReplayToolReturn(v, ws, event.result)
    ELSE ReplayReSnapshotReturn(ws, event.result)

\* the workflow code run on the first n recorded events
RECURSIVE Replay(_, _, _)
Replay(v, events, n) ==
    IF n = 0 THEN ReplayConstructed
    ELSE ReplayEvent(v, Replay(v, events, n - 1), events[n])

\* The two workflows side by side on one recording of temporal_agent's:
\* t is temporal_agent.PPTAgentWorkflow, b is BaseAgentWorkflow's.  Both get
\* every signal, workflow task, reasoner result and tool result of the
\* recording.  b has no await for create_file_path_mapping and none for the
\* snapshot after a mutating tool, so the result its await is waiting for is
\* held until t has passed its extra await: both are then at the same
\* point relative to the turns they append.
BothConstructed == [t |-> ReplayConstructed, b |-> ReplayConstructed, held |-> None]

BothOnEvent(p, event) ==
    IF event.type # "activity"
    THEN [p EXCEPT !.t = ReplayEvent("temporal", p.t, event),
                   !.b = ReplayEvent("base", p.b, event)]
    ELSE IF p.t.pc = "snapshot"
    THEN [p EXCEPT !.t = ReplaySnapshotReturn("temporal", p.t, event.result),
                   !.held = event.result]
    ELSE IF p.t.pc = "mapping"
    THEN [p EXCEPT !.t = ReplayMappingReturn("temporal", p.t, event.result),
                   !.b = ReplaySnapshotReturn("base", p.b, p.held)]
    ELSE IF p.t.pc = "llm"
    THEN [p EXCEPT !.t = ReplayLLMReturn(p.t, event.result),
                   !.b = ReplayLLMReturn(p.b, event.result)]
    ELSE IF p.t.pc = "tool"
    THEN IF IsMutating(p.t.inflight.tool_name)
         THEN [p EXCEPT !.t = ReplayToolReturn("temporal", p.t, event.result),
                        !.held = event.result]
         ELSE [p EXCEPT !.t = ReplayToolReturn("temporal", p.t, event.result),
                        !.b = ReplayToolReturn("base", p.b, event.result)]
    ELSE [p EXCEPT !.t = ReplayReSnapshotReturn(p.t, event.result),
                   !.b = ReplayToolReturn("base", p.b, p.held)]

RECURSIVE Both(_, _)
Both(events, n) ==
    IF n = 0 THEN BothConstructed
    ELSE BothOnEvent(Both(events, n - 1), events[n])

\* an instance whose history is recorded
RecoveryInit == Constructed /\ history = Recorded(<<>>)

\* the history has room for one more event
CanRecord == Len(history.events) < MaxEvents

RecoveryNext ==
    \/ CanRecord /\ RunStart
    \/ CanRecord /\ Signal
    \/ CanRecord /\ WaitReturn
    \/ CanRecord /\ SnapshotReturn
    \/ CanRecord /\ MappingReturn
    \/ CanRecord /\ Reasoner
    \/ CanRecord /\ ToolReturn
    \/ CanRecord /\ ReSnapshotReturn

RecoverySpec == RecoveryInit /\ [][RecoveryNext]_vars

\* ------------------------------------------------- failing reasoning calls
\* call_llm has no try: an error of the API call, or the two-minute
\* start_to_close_timeout, fails the activity attempt.  execute_activity is
\* given no retry policy, so Temporal schedules another attempt and run
\* stays at the await.
MaxAttempts == 2

\* the number of the attempt of call_llm under way
Attempt == IF "attempt" \in DOMAIN inflight THEN inflight.attempt ELSE 1

\* mutant: the failure is reported to the conversation as an assistant turn
LLMFailsAppending ==
    /\ pc = "llm"
    /\ Attempt < MaxAttempts
    /\ inflight' = [activity |-> "call_llm", attempt |-> Attempt + 1]
    /\ clock' = clock + 1
    /\ messages' = Append(messages, AssistantTurn([content |-> "Error: call_llm failed",
                                                   tool_calls |-> NoList]))
    /\ turn_at' = Append(turn_at, clock')
    /\ UNCHANGED <<ui, tools, variant, iteration, max_iterations, pptx_files, excel_files, file_path_mapping,
                   memory, user_input_received, user_query, tool_calls, tool_index,
                   tool_response, pc, fs, delivered, llm_calls, cycle, snapshot_at,
                   tool_done_at, history>>

\* an attempt of call_llm raises or times out
LLMFails ==
    /\ pc = "llm"
    /\ Attempt < MaxAttempts
    /\ inflight' = [activity |-> "call_llm", attempt |-> Attempt + 1]
    /\ UNCHANGED <<ui, tools, variant, iteration, max_iterations, pptx_files, excel_files, file_path_mapping,
                   memory, user_input_received, user_query, tool_calls, tool_index,
                   tool_response, pc, fs, delivered, llm_calls, cycle, snapshot_at,
                   tool_done_at, history, messages, turn_at, clock>>

FaultNext ==
    \/ RunStart
    \/ Signal
    \/ WaitReturn
    \/ SnapshotReturn
    \/ MappingReturn
    \/ Reasoner
    \/ LLMFails
    \/ ToolReturn
    \/ ReSnapshotReturn

FaultSpec == Init /\ [][FaultNext]_vars

\* ---------------------------------------------------- incomplete payloads
\* a client may signal a dict that lacks any of the three keys
PayloadKeys == {"query", "pptx_files", "excel_files"}

\* the dict d without the keys outside keys
Restrict(d, keys) == [k \in DOMAIN d \cap keys |-> d[k]]

\* the key sets of a payload: complete, one key missing, or empty
KeySets == {PayloadKeys, {}} \cup {PayloadKeys \ {key} : key \in PayloadKeys}

\* the payloads the k-th signal may carry, complete or not
SparsePayloads(k) ==
    { Restrict([query |-> QueryOf(k), pptx_files |-> <<DeckA>>, excel_files |-> <<BookA>>],
               keys) : keys \in KeySets }

SparseSignal ==
    /\ delivered < MaxSignals
    /\ \E input_data \in SparsePayloads(delivered + 1) : UserInput(input_data)

\* the workflow under a cooperative reasoner and clients that may send
\* incomplete payloads
MalformedNext ==
    \/ RunStart
    \/ SparseSignal
    \/ LiveWaitReturn
    \/ SnapshotReturn
    \/ MappingReturn
    \/ CooperativeReasoner
    \/ ToolReturn
    \/ ReSnapshotReturn

\* an instance that keeps the payload of the latest signal
MalformedInit == Constructed /\ history = LatestSignal(<<>>)

MalformedSpec == MalformedInit /\ [][MalformedNext]_vars

\* ------------------------------------------- vanilla_agent.ai_ppt_agent
\* The same agent as one synchronous function: the reasoner, the tools and
\* the interactive prompt are called in line, and the log is the local
\* list messages the function returns.
MaxIterations == 2

\* the documents ai_ppt_agent may be called with
VanillaDocSets == DocSets \cup {[pptx_files |-> <<>>, excel_files |-> <<>>]}

\* what the user may type at the prompt
VanillaInputs(k) == {"exit", "EXIT", QueryOf(k)}

\* str.lower() on the inputs above
lower(text) == IF text = "EXIT" THEN "exit" ELSE text

\* ai_ppt_agent(user_query, pptx_files, excel_files, max_iterations) is called
VanillaInit ==
    /\ variant = "vanilla"
    /\ pc = "called"
    /\ messages = <<>>
    /\ \E d \in VanillaDocSets : pptx_files = d.pptx_files /\ excel_files = d.excel_files
    /\ file_path_mapping = EmptyDict
    /\ memory = EmptyDict
    /\ user_input_received = FALSE
    /\ user_query = QueryOf(0)
    /\ inflight = NoActivity
    /\ tool_calls = <<>>
    /\ tool_index = 0
    /\ tool_response = None
    /\ fs = InitialFiles
    /\ delivered = 0
    /\ llm_calls = 0
    /\ cycle = NoCycle
    /\ clock = 0
    /\ snapshot_at = 0
    /\ tool_done_at = 0
    /\ turn_at = <<>>
    /\ history = NotRecorded
    /\ iteration = 0
    /\ max_iterations \in 0..MaxIterations
    /\ tools = <<>>
    /\ session_state = NoSession
    /\ signals = <<>>
    /\ poll = NotPolling

\* the snapshot, the mapping and the first two turns are built
VanillaStart ==
    /\ pc = "called"
    /\ memory' = create_memory_snapshot(fs, pptx_files, excel_files)
    /\ file_path_mapping' = create_file_path_mapping(pptx_files, excel_files)
    /\ clock' = clock + 1
    /\ snapshot_at' = clock'
    /\ messages' = <<[role |-> "system",
                      content |-> SystemContent("vanilla initial", memory', file_path_mapping')],
                     UserTurn(user_query)>>
    /\ turn_at' = <<clock', clock'>>
    /\ iteration' = 0
    /\ tools' = define_tools
    /\ pc' = "loop"
    /\ UNCHANGED <<ui, variant, max_iterations, pptx_files, excel_files, user_input_received,
                   user_query, inflight, tool_calls, tool_index, tool_response, fs,
                   delivered, llm_calls, cycle, tool_done_at, history>>

\* while iteration < max_iterations: is false; return messages
VanillaReturn ==
    /\ pc = "loop"
    /\ ~(iteration < max_iterations)
    /\ pc' = "returned"
    /\ UNCHANGED <<ui, tools, variant, iteration, max_iterations, messages, pptx_files, excel_files,
                   file_path_mapping, memory, user_input_received, user_query, inflight,
                   tool_calls, tool_index, tool_response, fs, delivered, llm_calls,
                   cycle, clock, snapshot_at, tool_done_at, turn_at, history>>

\* one pass of the while body up to the test of tool_calls: the LLM is
\* called and its message appended
VanillaLLM(assistant_message) ==
    /\ pc = "loop"
    /\ iteration < max_iterations
    /\ llm_calls' = llm_calls + 1
    /\ clock' = clock + 1
    /\ messages' = Append(messages, AssistantTurn(assistant_message))
    /\ turn_at' = Append(turn_at, clock')
    /\ tool_calls' = assistant_message.tool_calls.items
    /\ IF HasToolCalls(assistant_message)
       THEN tool_index' = 1 /\ pc' = "for"
       ELSE tool_index' = 0 /\ pc' = "input"
    /\ UNCHANGED <<ui, tools, variant, iteration, max_iterations, pptx_files, excel_files,
                   file_path_mapping, memory, user_input_received, user_query, inflight,
                   tool_response, fs, delivered, cycle, snapshot_at, tool_done_at,
                   history>>

\* the reasoner answers; the model follows it for MaxLLMCalls calls
VanillaReasoner ==
    /\ llm_calls < MaxLLMCalls
    /\ \E assistant_message \in Replies(llm_calls + 1) : VanillaLLM(assistant_message)

\* one pass of the for body: the tool call at tool_index is decoded and
\* executed, the snapshot rebuilt after a modifying tool, the tool turn
\* appended; after the last call, continue
VanillaToolCall ==
    /\ pc = "for"
    /\ LET tool_call == tool_calls[tool_index]
           tool_name == tool_call.function.name
       IN IF ~IsJson(tool_call.function.arguments)
          THEN /\ pc' = "raised"
               /\ UNCHANGED <<messages, memory, tool_index, fs, clock, snapshot_at, turn_at>>
          ELSE LET done == execute_tool(fs, tool_name,
                                        json_loads(tool_call.function.arguments))
               IN /\ fs' = done.files
                  /\ IF done.raised
                     THEN /\ pc' = "raised"
                          /\ UNCHANGED <<messages, memory, tool_index, clock, snapshot_at,
                                         turn_at>>
                     ELSE /\ clock' = clock + 1
                          /\ IF tool_name \in {"modify_slide", "modify_excel"}
                             THEN /\ memory' = create_memory_snapshot(fs', pptx_files,
                                                                      excel_files)
                                  /\ snapshot_at' = clock'
                                  /\ messages' =
                                       Append(SetSystemContent(messages,
                                                  SystemContent("vanilla after tool", memory',
                                                                file_path_mapping)),
                                              ToolTurn(tool_call, done.response))
                             ELSE /\ messages' = Append(messages,
                                                        ToolTurn(tool_call, done.response))
                                  /\ UNCHANGED <<memory, snapshot_at>>
                          /\ turn_at' = Append(turn_at, clock')
                          /\ IF tool_index < Len(tool_calls)
                             THEN tool_index' = tool_index + 1 /\ pc' = "for"
                             ELSE tool_index' = 0 /\ pc' = "loop"
    /\ UNCHANGED <<ui, tools, variant, iteration, max_iterations, pptx_files, excel_files,
                   file_path_mapping, user_input_received, user_query, inflight,
                   tool_calls, tool_response, delivered, llm_calls, cycle, tool_done_at,
                   history>>

\* the reply had no tool calls: input(); exit leaves the loop, anything
\* else is appended as a user turn and counted
VanillaInput(user_input) ==
    /\ pc = "input"
    /\ IF lower(user_input) = "exit"
       THEN /\ pc' = "returned"
            /\ UNCHANGED <<messages, turn_at, iteration>>
       ELSE /\ messages' = Append(messages, UserTurn(user_input))
            /\ turn_at' = Append(turn_at, clock)
            /\ iteration' = iteration + 1
            /\ pc' = "loop"
    /\ UNCHANGED <<ui, tools, variant, max_iterations, pptx_files, excel_files, file_path_mapping,
                   memory, user_input_received, user_query, inflight, tool_calls,
                   tool_index, tool_response, fs, delivered, llm_calls, cycle, clock,
                   snapshot_at, tool_done_at, history>>

VanillaPrompt == \E user_input \in VanillaInputs(iteration + 1) : VanillaInput(user_input)

VanillaNext ==
    \/ VanillaStart
    \/ VanillaReasoner
    \/ VanillaToolCall
    \/ VanillaPrompt
    \/ VanillaReturn

VanillaSpec == VanillaInit /\ [][VanillaNext]_vars

\* ------------------------------------------- the two mutating activities
\* modify_slide and modify_excel called on their own, one call after the
\* other, on the files on disk
MaxMutations == 2

\* the arguments tried
MutationPaths == {DeckA, DeckB, BookA, Gone}
MutationIndexes == (0 - 1)..(DeckSlides + 1)
MutationSheets == {"Sheet1", "Sheet2", "Sheet9"}
MutationCodes == {"add_slide", "edit", "raise"}

MutationInit ==
    /\ variant = "activities"
    /\ pc = "idle"
    /\ messages = <<>>
    /\ pptx_files = <<>>
    /\ excel_files = <<>>
    /\ file_path_mapping = EmptyDict
    /\ memory = EmptyDict
    /\ user_input_received = FALSE
    /\ user_query = ""
    /\ inflight = NoActivity
    /\ tool_calls = <<>>
    /\ tool_index = 0
    /\ tool_response = None
    /\ fs = InitialFiles
    /\ delivered = 0
    /\ llm_calls = 0
    /\ cycle = NoCycle
    /\ clock = 0
    /\ snapshot_at = 0
    /\ tool_done_at = 0
    /\ turn_at = <<>>
    /\ history = NotRecorded
    /\ iteration = 0
    /\ max_iterations = 0
    /\ tools = define_tools
    /\ session_state = NoSession
    /\ signals = <<>>
    /\ poll = NotPolling

\* modify_slide(params) runs to its return
RunModifySlide ==
    /\ clock < MaxMutations
    /\ \E path \in MutationPaths, index \in MutationIndexes, code \in MutationCodes :
          LET done == modify_slide(fs, path, index, code)
          IN /\ inflight' = [activity |-> "modify_slide", file_path |-> path,
                             slide_index |-> index, code |-> code]
             /\ tool_response' = done.response
             /\ fs' = done.files
    /\ clock' = clock + 1
    /\ UNCHANGED <<ui, tools, variant, pc, messages, pptx_files, excel_files,
                   file_path_mapping, memory, user_input_received, user_query,
                   tool_calls, tool_index, delivered, llm_calls, cycle, snapshot_at,
                   tool_done_at, turn_at, history, iteration, max_iterations>>

\* modify_excel(params) runs to its return
RunModifyExcel ==
    /\ clock < MaxMutations
    /\ \E path \in MutationPaths, sheet \in MutationSheets, code \in MutationCodes :
          LET done == modify_excel(fs, path, sheet, code)
          IN /\ inflight' = [activity |-> "modify_excel", file_path |-> path,
                             sheet_name |-> sheet, code |-> code]
             /\ tool_response' = done.response
             /\ fs' = done.files
    /\ clock' = clock + 1
    /\ UNCHANGED <<ui, tools, variant, pc, messages, pptx_files, excel_files,
                   file_path_mapping, memory, user_input_received, user_query,
                   tool_calls, tool_index, delivered, llm_calls, cycle, snapshot_at,
                   tool_done_at, turn_at, history, iteration, max_iterations>>

MutationNext ==
    \/ RunModifySlide
    \/ RunModifyExcel

MutationSpec == MutationInit /\ [][MutationNext]_vars

\* ------------------------------------------------------------------ app.py
\* The Streamlit script of app.py: every user interaction runs main() once,
\* and st.rerun() runs it again.  A thread is its index in
\* session_state.threads ("Thread 1" is index 1) and owns one workflow.
MaxThreads == 2
MaxSends == 2

\* the lists the checkboxes of the sidebar can produce (os.listdir order)
SelectablePptx == {<<>>, <<DeckA>>, <<DeckB>>, <<DeckA, DeckB>>}
SelectableExcel == {<<>>, <<BookA>>}

\* the entry made for a new thread
NewThread == [selected_pptx |-> <<>>, selected_excel |-> <<>>, workflow_handle |-> FALSE]

\* the prompt of the k-th message typed into st.chat_input
PromptOf(k) == "p" \o ToString(k)

\* BaseAgent.__init__ keeps the two list objects it is given; shares is
\* the thread whose selected_* entries are still those same objects
BaseAgent(thread, pptx, excel) ==
    [created |-> TRUE, pptx_files |-> pptx, excel_files |-> excel, shares |-> thread]

\* initialize_agent: the agent is made once per session
initialize_agent(ss, thread) ==
    IF ss.agent.created THEN ss.agent
    ELSE BaseAgent(thread, ss.threads[thread].selected_pptx,
                   ss.threads[thread].selected_excel)

\* get_or_create_workflow(current_thread_data), start_workflow succeeding
get_or_create_workflow(ss) ==
    IF ss.threads[ss.current_thread].workflow_handle THEN ss
    ELSE [ss EXCEPT !.agent = initialize_agent(ss, ss.current_thread),
                    !.threads[ss.current_thread].workflow_handle = TRUE]

\* the two expanders of the sidebar assign new lists to the current thread
Reselect(ss, pptx, excel) ==
    [ss EXCEPT !.threads[ss.current_thread].selected_pptx = pptx,
               !.threads[ss.current_thread].selected_excel = excel,
               !.agent.shares = IF @ = ss.current_thread THEN 0 ELSE @]

\* main() from the file selection on, the checkboxes left as they are
RestOfRun(ss) ==
    get_or_create_workflow(
        Reselect(ss, ss.threads[ss.current_thread].selected_pptx,
                     ss.threads[ss.current_thread].selected_excel))

\* BaseAgent.send_user_query builds the payload from the agent's own lists
AgentPayload(ss, query) ==
    [query |-> query, pptx_files |-> ss.agent.pptx_files,
     excel_files |-> ss.agent.excel_files]

AppInit ==
    /\ variant = "app"
    /\ pc = "idle"
    /\ messages = <<>>
    /\ pptx_files = <<>>
    /\ excel_files = <<>>
    /\ file_path_mapping = EmptyDict
    /\ memory = EmptyDict
    /\ user_input_received = FALSE
    /\ user_query = ""
    /\ inflight = NoActivity
    /\ tool_calls = <<>>
    /\ tool_index = 0
    /\ tool_response = None
    /\ fs = InitialFiles
    /\ delivered = 0
    /\ llm_calls = 0
    /\ cycle = NoCycle
    /\ clock = 0
    /\ snapshot_at = 0
    /\ tool_done_at = 0
    /\ turn_at = <<>>
    /\ history = NotRecorded
    /\ iteration = 0
    /\ max_iterations = 0
    /\ tools = define_tools
    /\ session_state = NoSession
    /\ signals = <<>>
    /\ poll = NotPolling

\* what no script run of app.py touches
AppFrame ==
    UNCHANGED <<poll, tools, variant, pc, messages, pptx_files, excel_files,
                file_path_mapping, memory, user_input_received, user_query, inflight,
                tool_calls, tool_index, tool_response, fs, delivered, llm_calls, cycle,
                clock, snapshot_at, tool_done_at, turn_at, history, iteration,
                max_iterations>>

\* the first script run: init_session_state makes Thread 1, main() goes on
AppLoad ==
    /\ session_state.current_thread = 0
    /\ session_state' =
           get_or_create_workflow(
               [session_state EXCEPT !.threads = <<NewThread>>, !.current_thread = 1])
    /\ UNCHANGED signals
    /\ AppFrame

\* the "+" button, st.rerun()
AppCreateThread ==
    /\ session_state.current_thread # 0
    /\ Len(session_state.threads) < MaxThreads
    /\ session_state' =
           RestOfRun([session_state EXCEPT
                         !.threads = Append(@, NewThread),
                         !.current_thread = Len(session_state.threads) + 1])
    /\ UNCHANGED signals
    /\ AppFrame

\* a thread button, st.rerun()
AppSwitchThread ==
    /\ session_state.current_thread # 0
    /\ \E thread \in DOMAIN session_state.threads :
          session_state' = RestOfRun([session_state EXCEPT !.current_thread = thread])
    /\ UNCHANGED signals
    /\ AppFrame

\* a file is uploaded for the current thread: it is appended to the
\* thread's list object in place, then the checkboxes assign new lists
AppUpload ==
    /\ session_state.current_thread # 0
    /\ \E path \in {DeckA, BookA} :
          LET cur == session_state.current_thread
              key == IF path = DeckA THEN "selected_pptx" ELSE "selected_excel"
              mine == IF path = DeckA THEN "pptx_files" ELSE "excel_files"
              old == session_state.threads[cur][key]
              new == IF \E i \in DOMAIN old : old[i] = path THEN old ELSE Append(old, path)
              appended ==
                  [session_state EXCEPT
                      !.threads[cur][key] = new,
                      !.agent[mine] = IF session_state.agent.shares = cur THEN new ELSE @]
          IN session_state' = RestOfRun(appended)
    /\ UNCHANGED signals
    /\ AppFrame

\* checkboxes are ticked or cleared for the current thread
AppSelectFiles ==
    /\ session_state.current_thread # 0
    /\ \E pptx \in SelectablePptx, excel \in SelectableExcel :
          session_state' = get_or_create_workflow(Reselect(session_state, pptx, excel))
    /\ UNCHANGED signals
    /\ AppFrame

\* a prompt is typed: send_user_input(workflow_handle, prompt,
\* selected_pptx, selected_excel) signals the thread's workflow
AppSend ==
    /\ session_state.current_thread # 0
    /\ Len(signals) < MaxSends
    /\ LET ss == RestOfRun(session_state)
       IN /\ session_state' = ss
          /\ signals' = Append(signals,
                 [workflow_id |-> ss.current_thread,
                  input_data |-> AgentPayload(ss, PromptOf(Len(signals) + 1))])
    /\ AppFrame

AppNext ==
    \/ AppLoad
    \/ AppCreateThread
    \/ AppSwitchThread
    \/ AppUpload
    \/ AppSelectFiles
    \/ AppSend

AppSpec == AppInit /\ [][AppNext]_vars

\* -------------------------------------------------------- streamlit_app.py
\* The chat input of streamlit_app.py counts the assistant turns, signals
\* the workflow and then polls its log once a second.  The workflow runs at
\* its own pace between two polls.
max_attempts == 60

\* count_assistant_messages(conversation), and the list the poll filters
AssistantMessages(msgs) == SelectSeq(msgs, LAMBDA msg : msg.role = "assistant")
count_assistant_messages(conversation) == Len(AssistantMessages(conversation))

\* the replies of a reasoner that may talk while it asks for a tool
TalkativeReplies(n) ==
    { [content |-> "done", tool_calls |-> NoList],
      [content |-> "", tool_calls |-> NoList],
      [content |-> "", tool_calls |-> List(<<ToolCall(n, 1, GetSlide)>>)],
      [content |-> "looking", tool_calls |-> List(<<ToolCall(n, 1, GetSlide)>>)],
      [content |-> "editing", tool_calls |-> List(<<ToolCall(n, 1, ModifySlide)>>)] }

TalkativeReasoner ==
    /\ llm_calls < MaxLLMCalls
    /\ \E assistant_message \in TalkativeReplies(llm_calls + 1) :
           LLMReturn(assistant_message)

\* main(), not waiting for a response: a prompt is typed, the assistant
\* turns are counted, send_user_input signals the workflow (the handler
\* user_input runs) and waiting_for_response is set
ClientSend ==
    /\ ~poll.active
    /\ delivered < MaxSignals
    /\ \E input_data \in Payloads(delivered + 1) :
          /\ user_query' = Get(input_data, "query", "")
          /\ pptx_files' = Get(input_data, "pptx_files", <<>>)
          /\ excel_files' = Get(input_data, "excel_files", <<>>)
          /\ file_path_mapping' =
                 HandlerMapping(variant, file_path_mapping, pptx_files', excel_files')
          /\ history' = Record(history, SignalEvent(input_data))
    /\ user_input_received' = TRUE
    /\ delivered' = delivered + 1
    /\ poll' = [active |-> TRUE, i |-> 0,
                message_count |-> count_assistant_messages(get_conversation_history),
                returned |-> "nothing"]
    /\ UNCHANGED <<session_state, signals, tools, variant, iteration, max_iterations, pc,
                   messages, memory, inflight, tool_calls, tool_index, tool_response, fs,
                   llm_calls, cycle, clock, snapshot_at, tool_done_at, turn_at>>

\* one iteration of the loop of poll_for_assistant_response: query the log,
\* return True on a new assistant turn with non-empty content, otherwise
\* sleep; the loop ends after max_attempts iterations and False is returned
PollStep ==
    /\ poll.active
    /\ poll.returned = "nothing"
    /\ poll.i < max_attempts
    /\ LET assistant_messages == AssistantMessages(get_conversation_history)
           complete ==
               /\ Len(assistant_messages) > poll.message_count
               /\ assistant_messages[Len(assistant_messages)].content # ""
       IN poll' =
             IF complete
             THEN [poll EXCEPT !.active = FALSE, !.i = @ + 1, !.returned = "true"]
             ELSE IF poll.i + 1 = max_attempts
                  THEN [poll EXCEPT !.i = @ + 1, !.returned = "false"]
                  ELSE [poll EXCEPT !.i = @ + 1]
    /\ UNCHANGED <<session_state, signals, tools, variant, pc, messages, pptx_files,
                   excel_files, file_path_mapping, memory, user_input_received, user_query,
                   inflight, tool_calls, tool_index, tool_response, fs, delivered,
                   llm_calls, cycle, clock, snapshot_at, tool_done_at, turn_at, history,
                   iteration, max_iterations>>

\* after a timeout waiting_for_response stays set: the next script run
\* calls poll_for_assistant_response again with the stored count
PollResume ==
    /\ poll.active
    /\ poll.returned = "false"
    /\ poll' = [poll EXCEPT !.i = 0, !.returned = "nothing"]
    /\ UNCHANGED <<session_state, signals, tools, variant, pc, messages, pptx_files,
                   excel_files, file_path_mapping, memory, user_input_received, user_query,
                   inflight, tool_calls, tool_index, tool_response, fs, delivered,
                   llm_calls, cycle, clock, snapshot_at, tool_done_at, turn_at, history,
                   iteration, max_iterations>>

PollNext ==
    \/ RunStart
    \/ ClientSend
    \/ LiveWaitReturn
    \/ SnapshotReturn
    \/ MappingReturn
    \/ TalkativeReasoner
    \/ ToolReturn
    \/ ReSnapshotReturn
    \/ PollStep
    \/ PollResume

PollSpec == Init /\ [][PollNext]_vars

\* ------------------------------------------------------------------ notions
UserTurns == {i \in DOMAIN messages : messages[i].role = "user"}
AssistantTurns == {i \in DOMAIN messages : messages[i].role = "assistant"}
ToolTurns == {i \in DOMAIN messages : messages[i].role = "tool"}

\* the tool calls an assistant turn carries (None counts as none)
RequestsOf(turn) == IF turn.tool_calls.is_none THEN <<>> ELSE turn.tool_calls.items

LastTurn == messages[Len(messages)]
LastUserTurn == messages[CHOOSE i \in UserTurns : \A j \in UserTurns : j <= i]

\* the run loop is back at wait_condition and no delivered signal is pending
Quiescent == pc = "wait" /\ ~user_input_received

\* the cycle has appended its user turn and has not returned to the wait
CycleUnderWay == pc \in {"llm", "tool", "resnapshot", "task_failed"}

\* the cycle is suspended in a snapshot or mapping activity
Refreshing == pc \in {"snapshot", "mapping", "resnapshot"}

\* ------------------------------------------------------------------- claims

\* C1: no signal is lost: once the instance is waiting again with nothing
\* pending, the query of every signal delivered so far is in the log as a
\* user turn (two signals delivered during one cycle give two user turns).
C1_NoSignalLost ==
    Quiescent =>
        \A k \in 1..delivered : \E i \in UserTurns : messages[i].content = QueryOf(k)

\* C2: Scenario C: while a cycle is under way, the user turn it appended
\* carries the query of the signal that started it, and the query of no
\* later signal is in the log.
C2_NoInterleavedUserTurn ==
    CycleUnderWay =>
        /\ LastUserTurn.content = QueryOf(cycle.signal)
        /\ \A i \in UserTurns : \A k \in (cycle.signal + 1)..delivered :
               messages[i].content # QueryOf(k)

\* C3: each delivered signal yields one user turn: every user turn carries
\* the query of a delivered signal and no query is appended twice.
C3_OneUserTurnPerSignal ==
    /\ \A i \in UserTurns : \E k \in 1..delivered : messages[i].content = QueryOf(k)
    /\ \A i, j \in UserTurns : messages[i].content = messages[j].content => i = j

\* C4: single-writer discipline: what the cycle in progress reads (the
\* document set its snapshot and mapping activities are called with, the
\* query it appended, the mapping it wrote into turn 0) is what the signal
\* that started it carried.
C4_SingleWriter ==
    /\ Refreshing =>
           /\ inflight.pptx_files = cycle.pptx_files
           /\ inflight.excel_files = cycle.excel_files
    /\ CycleUnderWay =>
           /\ LastUserTurn.content = cycle.query
           /\ messages[1].content.file_paths =
                  JsonText(create_file_path_mapping(cycle.pptx_files, cycle.excel_files))

\* the assistant turn that follows turn i, if there is one
LaterAssistant(i) == {j \in AssistantTurns : j > i}
NextAssistant(i) == CHOOSE j \in LaterAssistant(i) : \A k \in LaterAssistant(i) : j <= k

\* C5: for every assistant turn with tool calls that has a later assistant
\* turn: the turns between it and the next assistant turn are exactly the
\* tool turns of its tool calls, one per tool call id, in list order, and
\* no other turn of the log carries one of those ids.
C5_ToolTurnsPerRequest ==
    \A i \in AssistantTurns :
        (RequestsOf(messages[i]) # <<>> /\ LaterAssistant(i) # {}) =>
            LET requests == RequestsOf(messages[i]) IN
            /\ NextAssistant(i) = i + Len(requests) + 1
            /\ \A k \in DOMAIN requests :
                   /\ messages[i + k].role = "tool"
                   /\ messages[i + k].tool_call_id = requests[k].id
            /\ \A k \in DOMAIN requests :
                   Cardinality({t \in ToolTurns : messages[t].tool_call_id = requests[k].id}) = 1

\* C5 witness: an assistant turn with two tool calls has its two tool
\* turns and a later assistant turn.
C5_Witness ==
    \E i \in AssistantTurns :
        /\ Len(RequestsOf(messages[i])) = 2
        /\ LaterAssistant(i) # {}
        /\ messages[i + 1].role = "tool"
        /\ messages[i + 2].role = "tool"

\* C6: every tool turn answers a tool call of an earlier assistant turn:
\* its tool_call_id is that call's id and its name that call's function name.
C6_ToolTurnBackReference ==
    \A t \in ToolTurns :
        \E i \in AssistantTurns :
            /\ i < t
            /\ \E k \in DOMAIN RequestsOf(messages[i]) :
                   /\ RequestsOf(messages[i])[k].id = messages[t].tool_call_id
                   /\ RequestsOf(messages[i])[k]["function"].name = messages[t].name

\* C6 witness: the log holds the tool turn of a second tool call.
C6_Witness ==
    \E t \in ToolTurns : messages[t].tool_call_id = CallId(1, 2)

\* C7: the log is append-only: a step never shortens the log and leaves
\* every turn after turn 0 as it was; of turn 0 only the content changes.
C7_AppendOnly ==
    [][/\ Len(messages') >= Len(messages)
       /\ \A i \in 2..Len(messages) : messages'[i] = messages[i]
       /\ Len(messages) >= 1 => messages'[1].role = messages[1].role]_vars

\* C7 witness: turn 0 has been rewritten by a second cycle, over a log that
\* already held the first cycle's turns.
C7_Witness ==
    /\ Cardinality(UserTurns) >= 2
    /\ AssistantTurns # {}

\* C8: once run has started, the log the query returns has a system turn
\* at index 0 and no system turn anywhere else.
C8_SystemTurnFirst ==
    pc # "start" =>
        LET log == get_conversation_history IN
        /\ Len(log) >= 1
        /\ log[1].role = "system"
        /\ \A i \in 2..Len(log) : log[i].role # "system"

\* C8 witness: a cycle has rewritten turn 0 and appended turns after it.
C8_Witness ==
    /\ Len(messages) >= 3
    /\ messages[1].content.prompt # "initial"

\* C9: whenever the run loop is at the wait after at least one cycle, the
\* last turn is an assistant turn whose tool_calls is None or empty.
C9_CycleEndsOnPlainAssistant ==
    (pc = "wait" /\ Len(messages) > 1) =>
        /\ LastTurn.role = "assistant"
        /\ LastTurn.tool_calls.is_none \/ LastTurn.tool_calls.items = <<>>

\* C9 witness: the loop is back at the wait after a cycle that ran tools.
C9_Witness == pc = "wait" /\ ToolTurns # {}

\* C10: in temporal_agent, whenever the last turn is the tool turn of a
\* modify_slide or modify_excel call, turn 0 holds a snapshot built after
\* that tool executed (so the rebuild precedes the tool turn and the
\* dispatch of the next tool call).
C10_SnapshotAfterMutation ==
    (/\ variant = "temporal"
     /\ Len(messages) >= 1
     /\ LastTurn.role = "tool"
     /\ LastTurn.name \in {"modify_slide", "modify_excel"}) =>
        /\ snapshot_at > turn_at[Len(messages)]
        /\ messages[1].content.prompt = "temporal after tool"
        /\ messages[1].content.memory = JsonText(memory)

\* C10 witness: the next tool call is in flight right after the tool turn
\* of a mutating call.
C10_Witness ==
    /\ variant = "temporal"
    /\ pc = "tool"
    /\ LastTurn.role = "tool"
    /\ LastTurn.name = "modify_slide"

\* C11: in BaseAgentWorkflow, whenever the last turn is the tool turn of a
\* modify_slide or modify_excel call, turn 0 holds a snapshot built after
\* that tool executed, not the snapshot of the start of the cycle.
C11_BaseSnapshotAfterMutation ==
    (/\ variant = "base"
     /\ Len(messages) >= 1
     /\ LastTurn.role = "tool"
     /\ LastTurn.name \in {"modify_slide", "modify_excel"}) =>
        snapshot_at > turn_at[Len(messages)]

\* C12: a step that appends a user turn leaves in turn 0 the snapshot that
\* create_memory_snapshot returned in the same cycle: one built after the
\* last turn of the log as it stood before the step.
C12_UserTurnAfterRefresh ==
    [][(/\ Len(messages') = Len(messages) + 1
        /\ messages'[Len(messages')].role = "user") =>
           /\ snapshot_at' > turn_at[Len(messages)]
           /\ "memory" \in DOMAIN messages'[1].content
           /\ messages'[1].content.memory = JsonText(memory')]_vars

\* C12 witness: the user turn of a second cycle has just been appended.
C12_Witness ==
    /\ Cardinality(UserTurns) >= 2
    /\ LastTurn.role = "user"

\* the basenames of the stored active document set
ActiveNames == {basename((pptx_files \o excel_files)[i]) : i \in DOMAIN (pptx_files \o excel_files)}

\* C13: after processing (waiting again, nothing pending, at least one
\* cycle run) turn 0 is the system turn and its snapshot has an entry for
\* the basename of every stored active document and for no other name.
C13_SnapshotCoversActiveSet ==
    (Quiescent /\ Len(messages) > 1) =>
        /\ messages[1].role = "system"
        /\ "memory" \in DOMAIN messages[1].content
        /\ DOMAIN messages[1].content.memory.json.Memory = ActiveNames

\* C13 witness: processing is over for a document set with a deck that
\* opens and a deck that does not, after an earlier cycle on another set.
C13_Witness ==
    /\ Quiescent
    /\ Cardinality(UserTurns) >= 2
    /\ pptx_files = <<DeckB, Gone>>
    /\ messages[1].content.memory.json.Memory["gone.pptx"] = ErrorEntry

\* C14: right after a context refresh, the mapping in turn 0 is
\* {basename(p) -> p} over the document set the cycle's snapshot activity
\* was called with (the set stored when the cycle left the wait), and the
\* snapshot in turn 0 is the one of that set.
C14_MappingMatchesSnapshot ==
    (pc = "llm" /\ LastTurn.role = "user") =>
        /\ messages[1].content.memory =
               JsonText(create_memory_snapshot(fs, cycle.pptx_files, cycle.excel_files))
        /\ messages[1].content.file_paths =
               JsonText(create_file_path_mapping(cycle.pptx_files, cycle.excel_files))

\* ---------------------------------------------------------------------- C15
\* execute_tool raises on every attempt (Temporal retries it without end)
ActivityNeverReturns ==
    pc = "tool" /\ execute_tool(fs, inflight.tool_name, inflight.tool_args).raised

\* json.loads raised inside run: the workflow task fails
TaskFailed == pc = "task_failed"

InCycle == pc \in {"snapshot", "mapping", "llm", "tool", "resnapshot"}

\* C15: under a cooperative reasoner and with every activity call returning,
\* a cycle that has started reaches the wait for the next signal again; the
\* only cycles that do not are those where an activity call never returns
\* or the workflow task fails, which the claim's premise excludes.
C15_CycleReturnsToWait ==
    InCycle ~> (pc = "wait" \/ ActivityNeverReturns \/ TaskFailed)

\* a cycle with a tool round has come back to the wait with no reply left
C15_Witness ==
    /\ pc = "wait" /\ llm_calls = MaxLLMCalls
    /\ Len(messages) >= 3 /\ messages[Len(messages) - 1].role = "tool"

\* ---------------------------------------------------------------------- C16
\* C16 as stated: between two queries with no signal delivered between
\* them the log does not change, whatever state the instance is in.
C16_QueryIdempotentBetweenSignals ==
    [][(pc # "start" /\ delivered' = delivered) =>
           get_conversation_history' = get_conversation_history]_vars

\* C16 amended: the log a query returns changes only when an activity of the
\* run coroutine completes.  Two queries with no activity completion between
\* them return identical logs, even if a signal was delivered or the wait
\* returned in between; and two queries with no signal between them return
\* identical logs when the first is made while the instance waits with no
\* unprocessed signal.
C16_QueryIdempotentBetweenCompletions ==
    [][/\ (pc # "start" /\ clock' = clock) =>
              get_conversation_history' = get_conversation_history
       /\ (Quiescent /\ delivered' = delivered) =>
              get_conversation_history' = get_conversation_history]_vars

\* a signal has been delivered while the cycle of an earlier one runs a tool
C16_Witness ==
    /\ pc = "tool" /\ user_input_received
    /\ delivered = cycle.signal + 1
    /\ LastTurn.role = "assistant"

\* ---------------------------------------------------------------------- C17
\* the keys a complete turn of each role carries
TurnKeys(role) ==
    IF role = "assistant" THEN {"role", "content", "tool_calls"}
    ELSE IF role = "tool" THEN {"role", "tool_call_id", "name", "content"}
    ELSE {"role", "content"}

\* C17: the log a query returns in any state (a query is answered between
\* two atomic stretches of run) holds complete turns only, and whenever
\* turn 0 shows a snapshot rebuilt after a mutating tool, the tool turn of
\* the call that caused the rebuild is in the log: a modify_slide or
\* modify_excel turn of the latest cycle, whose call returned just before
\* that snapshot was built (snapshot_at is the time of turn 0's snapshot
\* except while create_file_path_mapping runs, when turn 0 is still to be
\* rewritten from the snapshot just taken).
C17_ReadConsistentLog ==
    (pc # "start") =>
        /\ \A i \in DOMAIN get_conversation_history :
               /\ get_conversation_history[i].role \in {"system", "user", "assistant", "tool"}
               /\ DOMAIN get_conversation_history[i] = TurnKeys(get_conversation_history[i].role)
        /\ (get_conversation_history[1].content.prompt = "temporal after tool") =>
               \E i \in DOMAIN get_conversation_history :
                   /\ get_conversation_history[i].role = "tool"
                   /\ get_conversation_history[i].name \in {"modify_slide", "modify_excel"}
                   /\ \A j \in DOMAIN get_conversation_history :
                          get_conversation_history[j].role = "user" => j < i
                   /\ (pc # "mapping") => turn_at[i] + 1 = snapshot_at
        /\ (pc = "resnapshot") =>
               /\ snapshot_at < tool_done_at
               /\ LastTurn.role # "tool" \/ turn_at[Len(messages)] < tool_done_at

\* a query made while the second tool of a reply runs, after the first one
\* (a mutating tool) made turn 0 be rebuilt
C17_Witness ==
    /\ variant = "temporal" /\ pc = "tool"
    /\ messages[1].content.prompt = "temporal after tool"
    /\ LastTurn.role = "tool" /\ LastTurn.name = "modify_slide"

\* ---------------------------------------------------------------------- C18
\* C18: no tool call makes the workflow fail or stall: run never raises on
\* a tool call's arguments, and every execute_tool in flight returns a string.
C18_ToolCallsNeverStall ==
    /\ pc # "task_failed"
    /\ (pc = "tool") => ~execute_tool(fs, inflight.tool_name, inflight.tool_args).raised

\* ---------------------------------------------------------------------- C19
KnownTools == {"get_slide", "get_excel_data", "modify_slide", "modify_excel"}

\* tool names outside the four, and argument maps of every shape
UnknownNames == {"delete_file", "get_slides", ""}
ArgMaps ==
    { EmptyDict,
      [file_path |-> DeckA],
      [file_path |-> Gone, slide_index |-> 0 - 1],
      [file_path |-> BookA, sheet_name |-> "Sheet1", code |-> "raise"],
      [path |-> DeckA] }

\* the tool turn run appends for the tool call in flight, given its content
ExpectedToolTurn(content) ==
    [role |-> "tool", tool_call_id |-> tool_calls[tool_index].id,
     name |-> inflight.tool_name, content |-> content]

\* execute_tool has returned for the tool call in flight
ToolCompletes == pc = "tool" /\ clock' # clock

\* what run does after appending the last tool turn of a reply, or an earlier one
ContinuesAfterToolTurn ==
    IF tool_index = Len(tool_calls)
    THEN pc' = "llm" /\ inflight' = [activity |-> "call_llm"]
    ELSE tool_index' = tool_index + 1 /\ pc' \in {"tool", "task_failed"}

\* C19: for every tool name outside the four and every argument map,
\* execute_tool returns exactly "Unknown tool: <name>" without raising and
\* without touching the files; and when such a call completes in a cycle,
\* run appends a tool turn with exactly that content and goes on to the
\* next reasoning call.
C19_UnknownTool ==
    [][/\ \A name \in UnknownNames :
            \A args \in ArgMaps :
               /\ ~execute_tool(fs, name, args).raised
               /\ execute_tool(fs, name, args).response = "Unknown tool: " \o name
               /\ execute_tool(fs, name, args).files = fs
       /\ (ToolCompletes /\ inflight.tool_name \notin KnownTools) =>
               /\ messages' = Append(messages,
                                  ExpectedToolTurn("Unknown tool: " \o inflight.tool_name))
               /\ fs' = fs
               /\ ContinuesAfterToolTurn]_vars

\* the tool turn of a delete_file call is in the log and call_llm is scheduled
C19_Witness ==
    /\ pc = "llm" /\ LastTurn.role = "tool"
    /\ LastTurn.name = "delete_file"
    /\ LastTurn.content = "Unknown tool: delete_file"

\* ---------------------------------------------------------------------- C20
\* the slide indexes tried against a deck of n slides
IndexesOutOfRange(n) == {0 - 1, n, n + 1, 5 + n}

\* the get_slide call in flight names a deck that opens and a slide index
\* outside 0 .. n-1
GetSlideOutOfRangeInFlight ==
    /\ pc = "tool" /\ inflight.tool_name = "get_slide"
    /\ HasKeys(inflight.tool_args, {"file_path", "slide_index"})
    /\ OpensAsDeck(fs, inflight.tool_args["file_path"])
    /\ \/ inflight.tool_args["slide_index"] < 0
       \/ inflight.tool_args["slide_index"] >= fs[inflight.tool_args["file_path"]].slides

\* C20: get_slide with index i on a deck of n slides, i < 0 or i >= n,
\* returns exactly "Error: Slide index <i> out of range." without raising;
\* when such a call completes in a cycle, run appends a tool turn with that
\* content and goes on to the next reasoning call, the tool turn being the
\* last turn of the log call_llm is scheduled with.
C20_SlideIndexOutOfRange ==
    [][/\ \A path \in {p \in DOMAIN fs : OpensAsDeck(fs, p)} :
            \A i \in IndexesOutOfRange(fs[path].slides) :
               /\ ~execute_tool(fs, "get_slide", [file_path |-> path, slide_index |-> i]).raised
               /\ execute_tool(fs, "get_slide", [file_path |-> path, slide_index |-> i]).response
                      = "Error: Slide index " \o ToString(i) \o " out of range."
       /\ (ToolCompletes /\ GetSlideOutOfRangeInFlight) =>
               /\ messages' = Append(messages,
                      ExpectedToolTurn("Error: Slide index "
                          \o ToString(inflight.tool_args["slide_index"]) \o " out of range."))
               /\ ContinuesAfterToolTurn]_vars

\* Scenario B and its boundary: index 5 asked of the deck d1/a.pptx when it
\* has 3 slides (first disjunct) and when it has grown to 5 slides
C20_Witness ==
    /\ pc = "llm" /\ LastTurn.role = "tool" /\ LastTurn.name = "get_slide"
    /\ LastTurn.content = "Error: Slide index 5 out of range."
    /\ fs[DeckA].slides \in {DeckSlides, 5}

\* ---------------------------------------------------------------------- C22
\* the assistant turn whose tool calls the for loop is iterating
LoopTurn == CHOOSE a \in AssistantTurns : \A b \in AssistantTurns : b <= a

\* C22: while the for loop over a reply's tool calls is suspended (in
\* execute_tool, or in the snapshot rebuild that follows a mutating tool),
\* it is at the tool_index-th call of the latest assistant turn, the tool
\* turns of exactly the calls before it have been appended in list order,
\* and the one activity in flight is execute_tool for that call (or the
\* rebuild); outside the loop no execute_tool is in flight.
C22_SequentialDispatch ==
    /\ (pc \in {"tool", "resnapshot"}) =>
          /\ tool_calls = RequestsOf(messages[LoopTurn])
          /\ tool_index \in 1..Len(tool_calls)
          /\ Len(messages) = LoopTurn + tool_index - 1
          /\ \A k \in 1..(tool_index - 1) :
                 /\ messages[LoopTurn + k].role = "tool"
                 /\ messages[LoopTurn + k].tool_call_id = tool_calls[k].id
          /\ (pc = "tool") =>
                 /\ inflight.activity = "execute_tool"
                 /\ inflight.tool_name = tool_calls[tool_index].function.name
                 /\ inflight.tool_args = tool_calls[tool_index].function.arguments.json
          /\ (pc = "resnapshot") => inflight.activity = "create_memory_snapshot"
    /\ (pc \notin {"tool"}) => inflight.activity # "execute_tool"

\* the second tool call of a reply is in flight, the first one's turn appended
C22_Witness ==
    /\ pc = "tool" /\ tool_index = 2
    /\ LastTurn.role = "tool" /\ LastTurn.tool_call_id = tool_calls[1].id
    /\ inflight.tool_name # tool_calls[1].function.name

\* ---------------------------------------------------------------------- C29
\* C29: whenever call_llm is in flight, the log it was scheduled with (the
\* log does not change while it runs) ends in a user turn or a tool turn,
\* and every tool call of every assistant turn in it is answered: the k-th
\* turn after an assistant turn is the tool turn of its k-th tool call.
C29_ReasonerSeesAnsweredLog ==
    (pc = "llm") =>
        /\ inflight.activity = "call_llm"
        /\ LastTurn.role \in {"user", "tool"}
        /\ \A a \in AssistantTurns :
               \A k \in 1..Len(RequestsOf(messages[a])) :
                  /\ a + k <= Len(messages)
                  /\ messages[a + k].role = "tool"
                  /\ messages[a + k].tool_call_id = RequestsOf(messages[a])[k].id

\* call_llm is in flight after a reply with two tool calls was served
C29_Witness ==
    /\ pc = "llm" /\ AssistantTurns # {}
    /\ Len(RequestsOf(messages[LoopTurn])) = 2
    /\ Len(messages) = LoopTurn + 2

\* ---------------------------------------------------------------------- C30
\* C30: the log never holds more user turns than signals were delivered,
\* and the run loop leaves the wait only with the flag set by a signal
\* delivered after the signals the previous cycle started from.
C30_CycleNeedsSignal ==
    [][/\ Cardinality(UserTurns) <= delivered
       /\ (pc = "wait" /\ pc' # "wait") =>
              /\ user_input_received
              /\ delivered > cycle.signal
              /\ pc' = "snapshot"]_vars

\* the run loop has left the wait a second time, on the third signal
C30_Witness ==
    /\ pc = "snapshot" /\ Cardinality(UserTurns) = 1
    /\ cycle.signal = 3 /\ delivered = 3

\* ---------------------------------------------------------------------- C25
\* the path lists create_memory_snapshot is tried with
DeckLists == {<<>>, <<DeckA>>, <<DeckA, DeckB>>, <<DeckB, DeckA>>, <<DeckA, Gone>>}
BookLists == {<<>>, <<BookA>>}

\* the files left when the documents in failing cannot be opened
WithFailing(files, failing) == [p \in DOMAIN files \ failing |-> files[p]]

\* the i-th path of pptx_files + excel_files opens in its loop of
\* create_memory_snapshot
OpensInSnapshot(files, pptx, excel, i) ==
    IF i <= Len(pptx) THEN OpensAsDeck(files, pptx[i])
    ELSE OpensAsBook(files, excel[i - Len(pptx)])

\* C25: for every list of pptx and excel paths and every set of documents
\* that fail to open, the snapshot has exactly one entry per basename, the
\* entry of each failing document is the one-element error list, and the
\* entry of each document that opens is what it is when nothing fails.
C25_SnapshotPerDocument ==
    \A pptx \in DeckLists : \A excel \in BookLists : \A failing \in SUBSET {DeckA, DeckB, BookA} :
        LET snap == create_memory_snapshot(WithFailing(fs, failing), pptx, excel).Memory
            whole == create_memory_snapshot(fs, pptx, excel).Memory
            paths == pptx \o excel
        IN /\ DOMAIN snap = {basename(paths[i]) : i \in DOMAIN paths}
           /\ \A i \in DOMAIN paths :
                 IF OpensInSnapshot(WithFailing(fs, failing), pptx, excel, i)
                 THEN snap[basename(paths[i])] = whole[basename(paths[i])]
                 ELSE /\ Len(snap[basename(paths[i])]) = 1
                      /\ snap[basename(paths[i])] = ErrorEntry

\* ---------------------------------------------------------------------- C26
\* the deck d1/a.pptx with n slides
DeckOfSize(files, n) == [files EXCEPT ![DeckA].slides = n]

\* the entry is the list "Slide 1", ..., "Slide n"
IsSlideList(entry, n) ==
    /\ Len(entry) = n
    /\ \A i \in 1..n : entry[i] = "Slide " \o ToString(i)

\* C26: for a readable deck with n slides, n >= 0, the snapshot entry under
\* its basename is "Slide 1", ..., "Slide n", and for a readable workbook
\* it is the sheet names in workbook order; and each snapshot a cycle takes
\* gives every deck of its document set that opens the list for the number
\* of slides the deck has at that moment.
C26_SnapshotEntries ==
    [][/\ \A n \in 0..(DeckSlides + 2) :
            /\ IsSlideList(create_memory_snapshot(DeckOfSize(fs, n), <<DeckA>>, <<BookA>>).Memory["a.pptx"], n)
            /\ create_memory_snapshot(DeckOfSize(fs, n), <<DeckA>>, <<BookA>>).Memory["b.xlsx"]
                   = <<"Sheet1", "Sheet2">>
       /\ create_memory_snapshot(DeckOfSize(fs, 3), <<DeckA>>, <<>>).Memory
              = ("a.pptx" :> <<"Slide 1", "Slide 2", "Slide 3">>)
       /\ (pc \in {"snapshot", "resnapshot"} /\ clock' # clock) =>
              \A i \in DOMAIN inflight.pptx_files :
                 OpensAsDeck(fs, inflight.pptx_files[i]) =>
                    IsSlideList(memory'.Memory[basename(inflight.pptx_files[i])],
                                fs[inflight.pptx_files[i]].slides)]_vars

\* Scenario A, and the same deck listed again after a slide was added to it
C26_Witness ==
    /\ pc = "llm" /\ "Memory" \in DOMAIN memory
    /\ "a.pptx" \in DOMAIN memory.Memory
    /\ memory.Memory["a.pptx"] \in {<<"Slide 1", "Slide 2", "Slide 3">>,
                                      <<"Slide 1", "Slide 2", "Slide 3", "Slide 4">>}

\* ---------------------------------------------------------------------- C23
\* C23: at every suspension point, running the workflow code again on the
\* recorded history (signals with their payloads, workflow tasks, results
\* of completed activities, in recorded order) gives the fields, the log
\* and the pending step the instance had before the crash: the same turns
\* in the same order, the same await, and the same activity in flight with
\* the same arguments.
C23_ReplayReconstructs ==
    WorkflowState = Replay(variant, history.events, Len(history.events))

\* a crash while call_llm runs after a mutating tool made turn 0 be rebuilt,
\* and a crash during the tool call that follows a signal delivered mid-cycle
C23_Witness ==
    \/ /\ variant = "temporal" /\ pc = "llm" /\ LastTurn.role = "tool"
       /\ messages[1].content.prompt = "temporal after tool"
    \/ /\ variant = "base" /\ pc = "tool" /\ user_input_received /\ delivered = 2

\* ---------------------------------------------------------------------- C21
\* an attempt of the reasoning call has failed and the call is being retried
ReasoningCallFailing == pc = "llm" /\ Attempt > 1

\* no assistant turn follows the last user turn of the log
NoAssistantAfterUserTurn ==
    \A i \in AssistantTurns : \E j \in UserTurns : i < j

\* C21 as stated: while a reasoning call of a cycle is failing, the log the
\* query returns ends with the pending user turn of the cycle and has no
\* assistant turn after it.
C21_StalledLogEndsWithUserTurn ==
    ReasoningCallFailing =>
        /\ get_conversation_history[Len(get_conversation_history)].role = "user"
        /\ NoAssistantAfterUserTurn

\* C21, amended: a failed attempt of a reasoning call appends nothing and
\* leaves run at the same await; the log the query returns then ends with
\* the pending user turn, with no assistant turn after it, exactly when the
\* failing call is the first reasoning call of the cycle, and otherwise
\* with the tool turn that answers the last request of the cycle's latest
\* assistant turn.
C21_FailureAppendsNothing ==
    [][(pc = "llm" /\ pc' = "llm" /\ inflight' # inflight) =>
          /\ messages' = messages
          /\ LastTurn.role \in {"user", "tool"}
          /\ (LastTurn.role = "user") <=> NoAssistantAfterUserTurn
          /\ LastTurn.role = "tool" =>
                /\ messages[LoopTurn].tool_calls.items # <<>>
                /\ LastTurn.tool_call_id =
                     messages[LoopTurn].tool_calls.items[
                         Len(messages[LoopTurn].tool_calls.items)].id]_vars

\* the reasoning call that follows a tool round is being retried
C21_Witness == ReasoningCallFailing /\ LastTurn.role = "tool"

\* ---------------------------------------------------------------------- C24
\* the payload of the latest signal delivered
LatestPayload == history.events[1].input

\* the step appends a user turn
AppendsUserTurn ==
    /\ Len(messages') = Len(messages) + 1
    /\ messages'[Len(messages')].role = "user"

\* C24: a signal whose payload lacks the query key is accepted without
\* error (the handler sets the flag and run is left where it was) and gives
\* the empty query; a payload lacking pptx_files or excel_files gives the
\* empty list for it; keys that are present are taken as they are.  The
\* cycle that consumes the signal appends a user turn whose content is the
\* stored query, "" for a missing key, and goes on to the reasoning call.
C24_MissingKeysDefault ==
    [][/\ delivered' = delivered + 1 =>
            /\ pc' = pc /\ messages' = messages /\ user_input_received'
            /\ user_query' = IF "query" \in DOMAIN LatestPayload'
                              THEN LatestPayload'.query ELSE ""
            /\ pptx_files' = IF "pptx_files" \in DOMAIN LatestPayload'
                              THEN LatestPayload'.pptx_files ELSE <<>>
            /\ excel_files' = IF "excel_files" \in DOMAIN LatestPayload'
                               THEN LatestPayload'.excel_files ELSE <<>>
       /\ AppendsUserTurn =>
            /\ messages'[Len(messages')] = [role |-> "user", content |-> user_query]
            /\ pc' = "llm"
            /\ inflight' = [activity |-> "call_llm"]]_vars

\* a cycle started by a signal without a query has appended the user turn
\* "" and an assistant turn after it and is back at the wait; the latest
\* signal carried no document list
C24_Witness ==
    /\ pc = "wait" /\ delivered >= 1
    /\ \E i \in UserTurns :
          /\ messages[i].content = ""
          /\ i < Len(messages) /\ messages[i + 1].role = "assistant"
    /\ "pptx_files" \notin DOMAIN LatestPayload
    /\ "excel_files" \notin DOMAIN LatestPayload
    /\ pptx_files = <<>> /\ excel_files = <<>>

\* ---------------------------------------------------------------------- C27
\* C27: ai_ppt_agent makes at most max_iterations LLM calls, whatever the
\* reasoner replies and the user types.
C27_AtMostMaxIterationsCalls ==
    variant = "vanilla" => llm_calls <= max_iterations

\* ---------------------------------------------------------------------- C28
\* C28: in ai_ppt_agent every user turn appended from the interactive
\* prompt comes after a rebuild of the snapshot (and rewrite of turn 0)
\* made later than the assistant turn that precedes it.
C28_UserTurnAfterRebuild ==
    [][(variant = "vanilla" /\ AppendsUserTurn /\ Len(messages) > 1) =>
          snapshot_at' > turn_at[Len(messages)]]_vars

\* ---------------------------------------------------------------------- C35
\* the function names the catalog in self.tools declares
CatalogNames == {tools[i].function.name : i \in DOMAIN tools}

\* the content execute_tool gave back in a step that completes it
ToolResponseOfStep ==
    IF pc' = "resnapshot" THEN tool_response' ELSE messages'[Len(messages) + 1].content

\* C35: the catalog in self.tools is never changed by a step and declares
\* modify_slide and modify_excel; for every name
\* and argument map execute_tool returns "Unknown tool: <name>" exactly
\* when the name is not declared by the catalog; and in a run, the
\* completed execute_tool call gave that text exactly for undeclared names
\* and, in temporal_agent, is followed by a snapshot rebuild exactly when
\* the name is one of the catalog's two modify_* names.
C35_CatalogMatchesDispatcher ==
    [][/\ tools' = tools
       /\ {"modify_slide", "modify_excel"} \subseteq CatalogNames
       /\ \A name \in KnownTools \cup UnknownNames : \A tool_args \in ArgMaps :
             LET done == execute_tool(fs, name, tool_args)
             IN (~done.raised /\ done.response = "Unknown tool: " \o name)
                    <=> name \notin CatalogNames
       /\ (pc = "tool" /\ clock' = clock + 1) =>
             /\ (ToolResponseOfStep = "Unknown tool: " \o inflight.tool_name)
                    <=> inflight.tool_name \notin CatalogNames
             /\ variant = "temporal" =>
                    ((pc' = "resnapshot") <=>
                        inflight.tool_name \in CatalogNames \cap {"modify_slide", "modify_excel"})
      ]_vars

\* an undeclared name has been answered and a modify_* call has led to a
\* rebuild of the snapshot
C35_Witness ==
    /\ \E i \in ToolTurns : messages[i].content = "Unknown tool: delete_file"
    /\ "delete_file" \notin CatalogNames
    /\ variant = "temporal" /\ pc = "resnapshot"
    /\ inflight.activity = "create_memory_snapshot"
    /\ tool_calls[tool_index].function.name \in CatalogNames

\* ---------------------------------------------------------------------- C34
\* exec(code, ...) raises
CodeRaises(code) == code = "raise"

\* the strings of the model that start with "Error:"
ErrorTexts ==
    {"Error: cannot open file, code: " \o code : code \in MutationCodes}
    \cup {"Error: raised, code: " \o code : code \in MutationCodes}
    \cup {"Error: cannot read sheet, code: " \o code : code \in MutationCodes}
    \cup {"Error: Slide index " \o ToString(index) \o " out of range." :
             index \in MutationIndexes}

\* the call that has just returned is one of the failures the claim names
MutationFailed(call) ==
    IF call.activity = "modify_slide"
    THEN \/ ~OpensAsDeck(fs, call.file_path)
         \/ ~(0 <= call.slide_index /\ call.slide_index < fs[call.file_path].slides)
         \/ CodeRaises(call.code)
    ELSE \/ ~OpensAsBook(fs, call.file_path)
         \/ \A i \in DOMAIN fs[call.file_path].sheets :
                fs[call.file_path].sheets[i] # call.sheet_name
         \/ CodeRaises(call.code)

\* C34: a call of modify_slide whose file does not open, whose index is
\* outside [0, n) or whose code raises, and a call of modify_excel whose
\* sheet cannot be read or whose code raises, returns a string starting
\* with "Error:" and leaves every file as it was; a call that is none of
\* these writes its document, only its document, and returns no error.
C34_FailedMutationWritesNothing ==
    [][clock' = clock + 1 =>
          IF MutationFailed(inflight')
          THEN tool_response' \in ErrorTexts /\ fs' = fs
          ELSE /\ tool_response' \notin ErrorTexts
               /\ fs'[inflight'.file_path].rev = fs[inflight'.file_path].rev + 1
               /\ \A path \in DOMAIN fs \ {inflight'.file_path} : fs'[path] = fs[path]]_vars

\* after a successful mutation of a deck, a call whose code raises and a
\* call with an index out of range have returned
C34_Witness ==
    /\ variant = "activities" /\ clock = 2
    /\ inflight.activity = "modify_slide" /\ inflight.file_path = DeckA
    /\ (CodeRaises(inflight.code) \/ inflight.slide_index = DeckSlides + 1)
    /\ tool_response \in ErrorTexts
    /\ fs[DeckA].rev = 1

\* ---------------------------------------------------------------------- C33
\* the turns of a log at index >= 1
ConversationOf(msgs) == SubSeq(msgs, 2, Len(msgs))

\* C33: run on the same signals, workflow tasks, reasoner results and tool
\* results, each delivered at the same point relative to the turns
\* appended, BaseAgentWorkflow.PPTAgentWorkflow and
\* temporal_agent.PPTAgentWorkflow have logs that are equal from index 1
\* on, turn by turn and field by field, and the temporal one is the log of
\* the recorded instance.
C33_VariantsAgreeOnConversation ==
    variant = "temporal" =>
        LET p == Both(history.events, Len(history.events))
        IN /\ ConversationOf(p.t.messages) = ConversationOf(p.b.messages)
           /\ p.t.messages = messages

\* a second signal came while temporal_agent rebuilt the snapshot after
\* modify_slide, and the tool turn has been appended
C33_Witness ==
    /\ variant = "temporal" /\ history.on
    /\ pc \in {"llm", "tool"} /\ delivered = 2
    /\ \E i \in ToolTurns : messages[i].name = "modify_slide"
    /\ messages[1].content.prompt = "temporal after tool"
    /\ \E n \in 2..Len(history.events) :
          /\ history.events[n].type = "signal"
          /\ Both(history.events, n - 1).t.pc = "resnapshot"

\* ---------------------------------------------------------------------- C31
\* C31: the signal send_user_input sends for a thread carries, as
\* pptx_files and excel_files, the lists passed to it: the file selection
\* of that thread at the time of sending.
C31_SignalCarriesThreadSelection ==
    [][Len(signals') = Len(signals) + 1 =>
          LET sent == signals'[Len(signals')]
              passed == session_state'.threads[sent.workflow_id]
          IN /\ sent.input_data.pptx_files = passed.selected_pptx
             /\ sent.input_data.excel_files = passed.selected_excel]_vars

\* ---------------------------------------------------------------------- C32
\* C32: poll_for_assistant_response returns True only when the cycle of
\* the latest user message is complete: the newest assistant turn is newer
\* than the message_count turns counted before sending and carries no tool
\* calls, and the workflow has no tool call of the cycle left to dispatch;
\* it returns after at most 60 polls.
CycleComplete ==
    LET assistant_messages == AssistantMessages(messages)
    IN /\ Len(assistant_messages) > poll.message_count
       /\ ~HasToolCalls(assistant_messages[Len(assistant_messages)])
       /\ pc = "wait"

C32_TrueOnlyWhenCycleComplete ==
    [][/\ poll.returned = "nothing" /\ poll'.returned = "true" => CycleComplete
       /\ poll'.i <= max_attempts
       /\ poll.returned = "nothing" /\ poll'.i = max_attempts => poll'.returned # "nothing"]_vars

====
